---- MODULE Spec2Model ----
(***************************************************************************)
(* Forecast ensemble and recommendation engine of the stock analysis       *)
(* application (src/prediction.py) together with its callers               *)
(* (src/api.py, src/pages/1_Stock_Analysis.py), the sequence model of the  *)
(* ensemble step by step, the portfolio table (src/database.py), the       *)
(* sessions and the registration of the HTTP API (src/api.py,              *)
(* src/auth.py), the tax calculation and the simulated trades              *)
(* (src/trading.py) and the watchlist table (src/database.py).             *)
(*                                                                         *)
(* Prices are exact rationals; the IEEE special values that numpy          *)
(* produces (nan, +inf, -inf) are separate tagged values.  Dates are day   *)
(* numbers.  Every optional value is a record with a tag field k, so that  *)
(* Python's None is the record None.                                       *)
(***************************************************************************)
EXTENDS Integers, Sequences, FiniteSets, TLC

(***************************************************************************)
(* Program constants                                                       *)
(***************************************************************************)
\* forecast_days=30 passed by every caller (and the constructor default)
forecast_days == 30

\* look_back = 60 in predict_with_lstm
look_back == 60

\* batch_size = 32 in predict_with_lstm
batch_size == 32

\* epochs = 25 in predict_with_lstm
epochs == 25

\* "if early_stop_counter >= 5": patience of 5 epochs
patience == 5

\* self.models: insertion order of the dict
ModelOrder == <<"ARIMA", "LSTM", "Prophet">>

Models == {"ARIMA", "LSTM", "Prophet"}

(***************************************************************************)
(* Bounds of the explored inputs                                           *)
(***************************************************************************)
\* a series too short for the sequence model has ShortLen rows
ShortLen == 3

\* model forecasts of the pipeline start at BasePrice + LevelStep * l,
\* l in -MaxLevel..MaxLevel
MaxLevel == 1

\* horizon levels (in percent of BasePrice) tried by the recommendation runs
MaxShort == 6

MaxMedium == 4

MaxLong == 1

\* daily trends 0..MaxTrend of the model forecasts of the pipeline
MaxTrend == 1

\* day number of the oldest bar of a series
FirstDate == 1

\* an epoch of the sequence model ends with an average loss 0..MaxLoss
MaxLoss == 4

\* series for the sequence model give up to MaxBatches full batches of
\* training pairs and up to MaxExtra pairs more
MaxBatches == 1

MaxExtra == 1

\* price level the inputs are built around
BasePrice == 100

(***************************************************************************)
(* Values                                                                  *)
(***************************************************************************)
None == [k |-> "None"]

NaN == [k |-> "nan"]

PInf == [k |-> "pinf"]

NInf == [k |-> "ninf"]

Abs(x) == IF x < 0 THEN -x ELSE x

RECURSIVE GCD(_, _)
GCD(a, b) == IF b = 0 THEN a ELSE GCD(b, a % b)

\* the rational n/d, d > 0, in lowest terms
Rat(n, d) ==
    LET g == GCD(Abs(n), d)
    IN [k |-> "num", n |-> n \div g, d |-> d \div g]

Num(i) == [k |-> "num", n |-> i, d |-> 1]

IsNum(x) == x.k = "num"

RAdd(a, b) == Rat(a.n * b.d + b.n * a.d, a.d * b.d)

RSub(a, b) == Rat(a.n * b.d - b.n * a.d, a.d * b.d)

RMul(a, b) == Rat(a.n * b.n, a.d * b.d)

\* x > c and x < c for a float x and an integer c; every comparison with
\* nan is false
GT(x, c) ==
    CASE x.k = "num" -> x.n > c * x.d
      [] x.k = "pinf" -> TRUE
      [] OTHER -> FALSE

LT(x, c) ==
    CASE x.k = "num" -> x.n < c * x.d
      [] x.k = "ninf" -> TRUE
      [] OTHER -> FALSE

\* a > b for two floats of which b is finite
GTnum(a, b) ==
    CASE a.k = "num" -> a.n * b.d > b.n * a.d
      [] a.k = "pinf" -> TRUE
      [] OTHER -> FALSE

RECURSIVE SumSeq(_)
SumSeq(s) == IF s = <<>> THEN Num(0) ELSE RAdd(Head(s), SumSeq(Tail(s)))

\* pandas mean: nan cells are skipped, the mean of nothing is nan
Mean(cells) ==
    LET valid == SelectSeq(cells, IsNum)
    IN IF Len(valid) = 0 THEN NaN
       ELSE LET s == SumSeq(valid) IN Rat(s.n, s.d * Len(valid))

\* s.iloc[a:b] with 0-based a and exclusive b, clipped to the length
ILocSlice(s, a, b) ==
    LET hi == IF b < Len(s) THEN b ELSE Len(s)
    IN IF a >= hi THEN <<>> ELSE SubSeq(s, a + 1, hi)

\* pd.date_range(start=start, periods=n): n consecutive calendar days
date_range(start, n) == [i \in 1..n |-> start + i - 1]

(***************************************************************************)
(* Series preparation                                                      *)
(***************************************************************************)
RECURSIVE Merge(_, _)
Merge(a, b) ==
    IF a = <<>> THEN b
    ELSE IF b = <<>> THEN a
    ELSE IF Head(a).date <= Head(b).date
         THEN <<Head(a)>> \o Merge(Tail(a), b)
         ELSE <<Head(b)>> \o Merge(a, Tail(b))

\* DataFrame.sort_index(): rows ascending by date
RECURSIVE sort_index(_)
sort_index(rows) ==
    IF Len(rows) <= 1 THEN rows
    ELSE LET h == Len(rows) \div 2
         IN Merge(sort_index(SubSeq(rows, 1, h)),
                  sort_index(SubSeq(rows, h + 1, Len(rows))))

\* "stock_data is None or stock_data.empty"
is_absent(sd) == sd.k = "None" \/ sd.rows = <<>>

\* prepare_data without the sort
prepare_data_unsorted(sd) ==
    IF is_absent(sd) THEN None ELSE [k |-> "df", rows |-> sd.rows]

\* prepare_data that only tests for None and lets an empty frame through
prepare_data_skips_empty(sd) ==
    IF sd.k = "None" THEN None
    ELSE [k |-> "df", rows |-> sort_index(sd.rows)]

prepare_data(sd) ==
    IF is_absent(sd) THEN None
    ELSE [k |-> "df", rows |-> sort_index(sd.rows)]

\* df.index[-1]
last_date(df) == df.rows[Len(df.rows)].date

\* a sort applied to the caller's frame itself
stock_data_sorted_in_place(sd) ==
    IF is_absent(sd) THEN sd
    ELSE [k |-> "df", rows |-> sort_index(sd.rows)]

\* self.stock_data after "self.stock_data.copy().sort_index()": the sort
\* builds a new frame out of the copy
stock_data_after_sort(sd) == sd

\* plot_prediction: the figure it returns and self.stock_data afterwards
plot_prediction(ensemble_pred, sd) ==
    IF ensemble_pred.k = "None" \/ sd.k = "None"
    THEN [figure |-> "None", stock_data |-> sd]
    ELSE [figure |-> "figure", stock_data |-> stock_data_after_sort(sd)]

(***************************************************************************)
(* The three forecasting models.  What the fitted library model predicts,  *)
(* and whether fitting throws, is the oracle o = [raises, forecast].       *)
(***************************************************************************)
ForecastFrame(dates, prices) ==
    [k |-> "df", index |-> dates, predicted_price |-> prices]

\* result of one predict_with_* call: the returned value, whether the call
\* went past the prepare_data check, whether an exception left the call
Returned(v, fit) == [value |-> v, fitted |-> fit, escaped |-> FALSE]

\* a model without its except clause: the error leaves the call
on_exception_propagates(fit) ==
    [value |-> None, fitted |-> fit, escaped |-> TRUE]

\* "except Exception as e: st.error(...); return None"
on_exception(fit) == Returned(None, fit)

\* fitting on no row, or df.index[-1] of a frame without rows, raises
empty_frame(df) == df.rows = <<>>

predict_with_arima(sd, o) ==
    LET df == prepare_data(sd)
    IN IF df.k = "None" THEN Returned(None, FALSE)
       ELSE IF empty_frame(df) \/ o.raises THEN on_exception(TRUE)
       ELSE Returned(ForecastFrame(date_range(last_date(df) + 1, forecast_days),
                                   o.forecast), TRUE)

\* a batch count that rounds up
n_batches_rounded_up(df) ==
    IF Len(df.rows) <= look_back THEN 0
    ELSE (Len(df.rows) - look_back + batch_size - 1) \div batch_size

\* len(x_train_tensor) // batch_size; with no training pair x_train.shape[1]
\* raises, with fewer than batch_size pairs epoch_loss / n_batches raises
n_batches(df) ==
    IF Len(df.rows) <= look_back THEN 0
    ELSE (Len(df.rows) - look_back) \div batch_size

predict_with_lstm(sd, o) ==
    LET df == prepare_data(sd)
    IN IF df.k = "None" THEN Returned(None, FALSE)
       ELSE IF n_batches(df) = 0 \/ o.raises THEN on_exception(TRUE)
       ELSE Returned(ForecastFrame(date_range(last_date(df) + 1, forecast_days),
                                   o.forecast), TRUE)

\* MinMaxScaler(feature_range=(0, 1)) fitted on the closes lo..hi: a
\* constant column is scaled with range 1
scale(x, lo, hi) == Rat(x - lo, IF hi = lo THEN 1 ELSE hi - lo)

\* scaler.inverse_transform
inverse_transform(v, lo, hi) ==
    LET range == IF hi = lo THEN 1 ELSE hi - lo
    IN Rat(v.n * range + lo * v.d, v.d)

\* data.min() and data.max() of the close column
close_min(df) ==
    LET closes == {df.rows[j].close : j \in 1..Len(df.rows)}
    IN CHOOSE x \in closes : \A y \in closes : x <= y

close_max(df) ==
    LET closes == {df.rows[j].close : j \in 1..Len(df.rows)}
    IN CHOOSE x \in closes : \A y \in closes : x >= y

\* scaled_data: the scaled closes, oldest first, each with its position
scaled_data(df) ==
    LET lo == close_min(df)
        hi == close_max(df)
    IN [j \in 1..Len(df.rows) |->
           [k |-> "hist", i |-> j, v |-> scale(df.rows[j].close, lo, hi)]]

\* "avg_loss < best_loss" on floats: false whenever avg_loss is nan
loss_lt(a, b) ==
    /\ a.k = "num"
    /\ \/ b.k = "pinf"
       \/ b.k = "num" /\ a.n * b.d < b.n * a.d

\* an early stop that takes an equal loss for an improvement
early_stop_lenient(avg_loss, best, counter) ==
    IF loss_lt(avg_loss, best) \/ avg_loss = best
    THEN [best_loss |-> avg_loss, early_stop_counter |-> 0]
    ELSE [best_loss |-> best, early_stop_counter |-> counter + 1]

\* "if avg_loss < best_loss: ... else: early_stop_counter += 1"
early_stop(avg_loss, best, counter) ==
    IF loss_lt(avg_loss, best)
    THEN [best_loss |-> avg_loss, early_stop_counter |-> 0]
    ELSE [best_loss |-> best, early_stop_counter |-> counter + 1]

\* the 0-based training pairs of batch i: x_train_tensor[start_idx:end_idx]
batch(i, n) ==
    LET start_idx == i * batch_size
        end_idx == IF start_idx + batch_size < n
                   THEN start_idx + batch_size ELSE n
    IN start_idx..(end_idx - 1)

\* "for i in range(n_batches)": per training pair, the number of batches
\* of one epoch that hold it
epoch_batches(n, nb) ==
    [q \in 1..n |-> Cardinality({i \in 0..(nb - 1) : (q - 1) \in batch(i, n)})]

\* a window that grows with every prediction
append_to_window(window, next_pred) == Append(window, next_pred)

\* np.append(inputs[1:], [[next_pred[0][0]]], axis=0)
slide_window(window, next_pred) == Append(Tail(window), next_pred)

\* Prophet.make_future_dataframe(periods): the history dates followed by
\* periods daily dates after the latest history date
make_future_dataframe(df, periods) ==
    [i \in 1..Len(df.rows) |-> df.rows[i].date]
        \o date_range(last_date(df) + 1, periods)

\* s.tail(n)
tail(s, n) == IF Len(s) <= n THEN s ELSE SubSeq(s, Len(s) - n + 1, Len(s))

predict_with_prophet(sd, o) ==
    LET df == prepare_data(sd)
    IN IF df.k = "None" THEN Returned(None, FALSE)
       ELSE IF empty_frame(df) \/ o.raises THEN on_exception(TRUE)
       ELSE LET future == make_future_dataframe(df, forecast_days)
                \* yhat: fitted values on the history, then the forecast
                yhat == [i \in 1..Len(df.rows) |-> df.rows[i].close]
                            \o o.forecast
            IN Returned(ForecastFrame(tail(future, forecast_days),
                                      tail(yhat, forecast_days)), TRUE)

predict_func(m, sd, o) ==
    CASE m = "ARIMA" -> predict_with_arima(sd, o)
      [] m = "LSTM" -> predict_with_lstm(sd, o)
      [] OTHER -> predict_with_prophet(sd, o)

(***************************************************************************)
(* Ensemble combiner                                                       *)
(***************************************************************************)
\* a combiner that goes on with the first forecast that arrived only
first_valid_prediction(order, preds) ==
    LET IsValid(m) == preds[m].k # "None"
        valid == SelectSeq(order, IsValid)
    IN IF valid = <<>> THEN valid ELSE <<valid[1]>>

\* {k: v for k, v in predictions.items() if v is not None}, in the order
\* the keys were inserted into predictions
valid_predictions_in(order, preds) ==
    LET IsValid(m) == preds[m].k # "None"
    IN SelectSeq(order, IsValid)

\* the same when the loop over self.models filled predictions
valid_predictions(preds) == valid_predictions_in(ModelOrder, preds)

\* pred_df['predicted_price'] aligned on the ensemble index: the value at
\* that date, nan where the model has no row for the date
ValueAt(pred, date) ==
    LET hits == {j \in 1..Len(pred.index) : pred.index[j] = date}
    IN IF hits = {} THEN NaN
       ELSE Num(pred.predicted_price[CHOOSE j \in hits : TRUE])

\* a combiner that counts a failed model as a forecast of zero
RowMeanFailedAsZero(cells) ==
    LET valid == SelectSeq(cells, IsNum)
        t == SumSeq(valid)
    IN Rat(t.n, t.d * Len(ModelOrder))

\* DataFrame.mean(axis=1) on one row of model columns
RowMean(cells) == Mean(cells)

Range(s) == {s[i] : i \in 1..Len(s)}

\* the part of ensemble_prediction after predictions was filled, its keys
\* inserted in the given order
combine_in(order, preds) ==
    LET valid == valid_predictions_in(order, preds)
    IN IF valid = <<>> THEN None
       ELSE LET dates == preds[valid[1]].index
                cols == [m \in Range(valid) |->
                            [i \in 1..Len(dates) |-> ValueAt(preds[m], dates[i])]]
                ens == [i \in 1..Len(dates) |->
                            RowMean([j \in 1..Len(valid) |-> cols[valid[j]][i]])]
            IN [k |-> "df",
                index |-> dates,
                columns |-> valid \o <<"ensemble">>,
                data |-> [c \in Range(valid) \cup {"ensemble"} |->
                             IF c = "ensemble" THEN ens ELSE cols[c]]]

\* the part of ensemble_prediction after the loop over self.models
combine(preds) == combine_in(ModelOrder, preds)

(***************************************************************************)
(* Recommendation engine                                                   *)
(***************************************************************************)
\* (pred - last_price) / last_price * 100 in numpy float arithmetic: a
\* division by zero gives +inf, -inf or nan and raises nothing
pct_return(pred, last_price) ==
    IF pred.k # "num" THEN pred
    ELSE LET diff == RSub(pred, last_price)
         IN IF last_price.n = 0
            THEN (IF diff.n > 0 THEN PInf ELSE IF diff.n < 0 THEN NInf ELSE NaN)
            ELSE IF last_price.n > 0
                 THEN Rat(diff.n * last_price.d * 100, diff.d * last_price.n)
                 ELSE Rat(-(diff.n * last_price.d * 100), diff.d * (-last_price.n))

\* the horizon windows taken one row late
horizon_returns_shifted(ensemble_pred, current_price) ==
    LET col == ensemble_pred.data["ensemble"]
    IN [short |-> pct_return(Mean(ILocSlice(col, 1, 8)), current_price),
        medium |-> pct_return(Mean(ILocSlice(col, 8, 15)), current_price),
        long |-> pct_return(col[Len(col)], current_price)]

\* short_term_return, medium_term_return, long_term_return
horizon_returns(ensemble_pred, current_price) ==
    LET col == ensemble_pred.data["ensemble"]
    IN [short |-> pct_return(Mean(ILocSlice(col, 0, 7)), current_price),
        medium |-> pct_return(Mean(ILocSlice(col, 7, 14)), current_price),
        long |-> pct_return(col[Len(col)], current_price)]

\* the decision logic with the thresholds included in the rules
decision_inclusive(r) ==
    LET GE(x, c) == GT(x, c) \/ (x.k = "num" /\ x.n = c * x.d)
        LE(x, c) == LT(x, c) \/ (x.k = "num" /\ x.n = c * x.d)
    IN IF GE(r.short, 5) /\ GE(r.medium, 3) /\ GE(r.long, 0)
       THEN [recommendation |-> "buy", confidence |-> "high",
             text |-> "Strong buy signal", horizons |-> {"short", "medium", "long"}]
       ELSE IF GE(r.short, 3) /\ GE(r.medium, 0)
       THEN [recommendation |-> "buy", confidence |-> "moderate",
             text |-> "Moderate buy signal", horizons |-> {"short", "medium"}]
       ELSE IF LE(r.short, -5) /\ LE(r.medium, -3) /\ LE(r.long, 0)
       THEN [recommendation |-> "sell", confidence |-> "high",
             text |-> "Strong sell signal", horizons |-> {"short", "medium", "long"}]
       ELSE IF LE(r.short, -3) /\ LE(r.medium, 0)
       THEN [recommendation |-> "sell", confidence |-> "moderate",
             text |-> "Moderate sell signal", horizons |-> {"short", "medium"}]
       ELSE [recommendation |-> "hold", confidence |-> "moderate",
             text |-> "Hold recommendation based on mixed signals",
             horizons |-> {"short", "medium", "long"}]

\* the decision logic: label, confidence, the sentence chosen and the
\* horizons whose return the sentence prints
decision(r) ==
    IF GT(r.short, 5) /\ GT(r.medium, 3) /\ GT(r.long, 0)
    THEN [recommendation |-> "buy", confidence |-> "high",
          text |-> "Strong buy signal", horizons |-> {"short", "medium", "long"}]
    ELSE IF GT(r.short, 3) /\ GT(r.medium, 0)
    THEN [recommendation |-> "buy", confidence |-> "moderate",
          text |-> "Moderate buy signal", horizons |-> {"short", "medium"}]
    ELSE IF LT(r.short, -5) /\ LT(r.medium, -3) /\ LT(r.long, 0)
    THEN [recommendation |-> "sell", confidence |-> "high",
          text |-> "Strong sell signal", horizons |-> {"short", "medium", "long"}]
    ELSE IF LT(r.short, -3) /\ LT(r.medium, 0)
    THEN [recommendation |-> "sell", confidence |-> "moderate",
          text |-> "Moderate sell signal", horizons |-> {"short", "medium"}]
    ELSE [recommendation |-> "hold", confidence |-> "moderate",
          text |-> "Hold recommendation based on mixed signals",
          horizons |-> {"short", "medium", "long"}]

\* f"{x:.2f}": the number of hundredths nearest to x (ties to even), or the
\* words Python prints for the special values
format_2f(x) ==
    CASE x.k = "num" ->
            LET t == x.n * 100
                q == t \div x.d
                r == t % x.d
            IN [k |-> "fixed",
                hundredths |-> IF 2 * r > x.d THEN q + 1
                               ELSE IF 2 * r < x.d THEN q
                               ELSE IF q % 2 = 0 THEN q ELSE q + 1]
      [] x.k = "pinf" -> [k |-> "inf"]
      [] x.k = "ninf" -> [k |-> "-inf"]
      [] OTHER -> [k |-> "nan"]

\* the loop over ensemble_pred.iloc[-1].items(): one signal per column
\* other than 'ensemble', in column order
model_signals(ensemble_pred, last_price) ==
    LET IsModel(c) == c # "ensemble"
        cs == SelectSeq(ensemble_pred.columns, IsModel)
        n == Len(ensemble_pred.index)
    IN [j \in 1..Len(cs) |->
           [model |-> cs[j],
            signal |-> IF GTnum(ensemble_pred.data[cs[j]][n], last_price)
                       THEN "Bullish" ELSE "Bearish"]]

NoReturns == [short |-> None, medium |-> None, long |-> None]

NoReports == [h \in {} |-> None]

\* the value of one generate_recommendation call: the returned pair, the
\* three returns it computed, and whether an exception left the call
Recommended(rec, text, reports, signals, conf, rets) ==
    [recommendation |-> rec,
     explanation |-> [text |-> text, reports |-> reports,
                      model_signals |-> signals, confidence |-> conf],
     returns |-> rets,
     raised |-> FALSE]

\* what makes the body of generate_recommendation throw: no 'ensemble'
\* column (KeyError) or no row (IndexError from iloc[-1])
body_raises(ensemble_pred) ==
    \/ "ensemble" \notin DOMAIN ensemble_pred.data
    \/ Len(ensemble_pred.index) = 0

generate_recommendation(ensemble_pred, current_price) ==
    IF ensemble_pred.k = "None" \/ current_price.k = "None"
    THEN Recommended("hold", "Insufficient data for recommendation.",
                     NoReports, <<>>, "none", NoReturns)
    ELSE IF body_raises(ensemble_pred)
    THEN Recommended("hold",
                     "Error in recommendation generation. Please check the data.",
                     NoReports, <<>>, "none", NoReturns)
    ELSE LET r == horizon_returns(ensemble_pred, current_price)
             d == decision(r)
         IN Recommended(d.recommendation, d.text,
                        [h \in d.horizons |-> format_2f(r[h])],
                        model_signals(ensemble_pred, current_price),
                        IF d.confidence = "high" THEN "High" ELSE "Moderate",
                        r)

(***************************************************************************)
(* Inputs                                                                  *)
(***************************************************************************)
Reverse(s) == [i \in 1..Len(s) |-> s[Len(s) + 1 - i]]

\* n daily bars on trading days (five a week) from FirstDate on, oldest first
TradingDays(n) ==
    [i \in 1..n |-> [date |-> FirstDate + (i - 1) + 2 * ((i - 1) \div 5),
                     close |-> BasePrice + (i % 3)]]

\* get_stock_data delivers newest first; a direct caller may pass either
MkSeries(n, newest_first) ==
    [k |-> "df",
     rows |-> IF newest_first THEN Reverse(TradingDays(n)) ELSE TradingDays(n)]

EmptySeries == [k |-> "df", rows |-> <<>>]

SeriesLens == {ShortLen, look_back + batch_size}

StockDataInputs ==
    {None, EmptySeries} \cup {MkSeries(n, nf) : n \in SeriesLens, nf \in BOOLEAN}

PipelinePrices == {None, Num(0), Num(BasePrice)}

\* what a fitted model may forecast: a level and a daily trend
ForecastShapes ==
    {[i \in 1..forecast_days |-> BasePrice + 6 * l + t * i] :
        l \in -MaxLevel..MaxLevel, t \in 0..MaxTrend}

Oracles ==
    {[raises |-> TRUE, forecast |-> <<>>]}
        \cup {[raises |-> FALSE, forecast |-> f] : f \in ForecastShapes}

Callers == {"api", "page", "direct"}

Periods == {"1month", "3month", "5month"}

PeriodInputs == {"1month", "1year"}

(***************************************************************************)
(* State                                                                   *)
(***************************************************************************)
VARIABLES
    caller,               \* who runs the pipeline
    period,               \* the period query parameter
    stock_data,           \* what get_stock_data returned
    current_price,        \* what get_current_price returned
    pc,                   \* position of the request
    next_model,           \* position of the loop over self.models
    predictions,          \* predictions[model_name]
    model_outcome,        \* how each model call ended
    calls,                \* number of calls of each predict function
    fitted,               \* whether a model went past the prepare_data check
    error_escaped,        \* an exception left ensemble_prediction
    ensemble_predictions, \* value returned by ensemble_prediction
    recommendation,       \* label returned by generate_recommendation
    explanation,          \* rationale returned by generate_recommendation
    returns,              \* the three horizon returns it computed
    rec_calls,            \* number of generate_recommendation calls
    response,             \* what the caller hands to the user
    figure                \* what plot_prediction returned

\* the model tasks of one ensemble run, each on its own schedule
VARIABLES
    oracle,               \* what each fitted library model will answer
    seen,                 \* the stock_data each task read
    run_order             \* the models in the order their results arrived

\* one run of predict_with_lstm, statement by statement
VARIABLES
    lstm_pc,              \* position in predict_with_lstm
    df,                   \* df, the prepared series
    scaler,               \* the fitted scaler: least and greatest close
    n_pairs,              \* len(x_train)
    epoch,                \* number of epochs run so far
    early_stop_counter,   \* early_stop_counter
    best_loss,            \* best_loss
    min_loss_seen,        \* the least avg_loss computed so far
    last_improved,        \* the last epoch whose avg_loss beat all before it
    batch_uses,           \* per training pair, the batches of the last
                          \* epoch that held it
    inputs,               \* the window fed to the network
    predicted_prices,     \* predicted_prices
    lstm_result           \* what predict_with_lstm returned

\* the portfolio table
VARIABLES
    portfolio,            \* the rows of the table
    n_calls,              \* number of add_to_portfolio calls so far
    last_call             \* the last call, the table before it, its result

\* the session registry of the API
VARIABLES
    users,                \* the rows of the users table
    active_sessions,      \* active_sessions: token -> session
    now,                  \* the clock read by datetime.now()
    logins,               \* every token handed out, with user and time
    logouts,              \* every completed logout, with user and time
    last_request          \* the last request and its answer

\* register requests served side by side
VARIABLES
    requests              \* request -> its position, body and answer

\* the trading page and the trading endpoints
VARIABLES
    trading_history,      \* the rows of the table, in insertion order
    quote,                \* the last tax calculation shown to the user
    last_trade            \* the last execute_trade call and its result

\* the watchlist table
VARIABLES
    watchlist,            \* the rows of the table
    watch_seq,            \* the last id handed out by AUTOINCREMENT
    last_watch            \* the last watchlist call and its result

\* the pipeline variables but stock_data
pipelineRest ==
    <<caller, period, current_price, pc, next_model,
      predictions, model_outcome, calls, fitted, error_escaped,
      ensemble_predictions, recommendation, explanation, returns,
      rec_calls, response, figure>>

pipelineVars == <<stock_data, pipelineRest>>

taskVars == <<oracle, seen, run_order>>

lstmVars ==
    <<lstm_pc, df, scaler, n_pairs, epoch, early_stop_counter, best_loss,
      min_loss_seen, last_improved, batch_uses, inputs, predicted_prices,
      lstm_result>>

portVars == <<portfolio, n_calls, last_call>>

authVars == <<users, active_sessions, now, logins, logouts, last_request>>

regVars == <<requests>>

tradeVars == <<trading_history, quote, last_trade>>

watchVars == <<watchlist, watch_seq, last_watch>>

dbVars == <<regVars, tradeVars, watchVars>>

vars == <<pipelineVars, taskVars, lstmVars, portVars, authVars, dbVars>>

NoOracle == [raises |-> FALSE, forecast |-> <<>>]

Unread == [k |-> "unread"]

\* no model task was started
NoTasks ==
    /\ oracle = [m \in Models |-> NoOracle]
    /\ seen = [m \in Models |-> Unread]
    /\ run_order = <<>>

\* predict_with_lstm is not running
LstmNotStarted ==
    /\ df = None
    /\ scaler = None
    /\ n_pairs = 0
    /\ epoch = 0
    /\ early_stop_counter = 0
    /\ best_loss = PInf
    /\ min_loss_seen = PInf
    /\ last_improved = 0
    /\ batch_uses = <<>>
    /\ inputs = <<>>
    /\ predicted_prices = <<>>
    /\ lstm_result = [k |-> "pending"]

NoLstm == lstm_pc = "idle" /\ LstmNotStarted

NoCall == [k |-> "none"]

\* the portfolio table is empty and was never written
NoPortfolio ==
    /\ portfolio = {}
    /\ n_calls = 0
    /\ last_call = NoCall

NoRequest == [k |-> "none"]

\* no user, no session, no request
NoSessions ==
    /\ users = {}
    /\ active_sessions = {}
    /\ now = 0
    /\ logins = {}
    /\ logouts = {}
    /\ last_request = NoRequest

\* the register requests one run may hold
MaxRequests == 3

RequestIds == 1..MaxRequests

NotArrived == [pc |-> "idle", user |-> None, status |-> 0, error |-> ""]

\* no register request has arrived
NoRegistering == requests = [i \in RequestIds |-> NotArrived]

\* no tax was calculated and no trade executed
NoTrading ==
    /\ trading_history = <<>>
    /\ quote = NoCall
    /\ last_trade = NoCall

\* the watchlist table is empty and was never written
NoWatchlist ==
    /\ watchlist = {}
    /\ watch_seq = 0
    /\ last_watch = NoCall

NoDbCalls == NoRegistering /\ NoTrading /\ NoWatchlist

\* everything outside the prediction pipeline is at rest
PipelineOnly == NoTasks /\ NoLstm /\ NoPortfolio /\ NoSessions /\ NoDbCalls

notPipeline == <<taskVars, lstmVars, portVars, authVars, dbVars>>

notTasks == <<lstmVars, portVars, authVars, dbVars>>

NoExplanation ==
    [text |-> "", reports |-> NoReports, model_signals |-> <<>>,
     confidence |-> "none"]

NoResponse == [kind |-> "pending", status |-> 0, detail |-> "",
               recommendation |-> "none"]

Fresh ==
    /\ next_model = 1
    /\ predictions = [m \in Models |-> None]
    /\ model_outcome = [m \in Models |-> "pending"]
    /\ calls = [m \in Models |-> 0]
    /\ fitted = [m \in Models |-> FALSE]
    /\ error_escaped = FALSE
    /\ recommendation = "none"
    /\ explanation = NoExplanation
    /\ returns = NoReturns
    /\ rec_calls = 0
    /\ response = NoResponse
    /\ figure = "none"

\* no prediction request is being served
PipelineIdle ==
    /\ caller = "direct"
    /\ period = "1month"
    /\ stock_data = None
    /\ current_price = None
    /\ pc = "idle"
    /\ ensemble_predictions = None
    /\ Fresh

Init ==
    /\ caller \in Callers
    /\ period \in PeriodInputs
    /\ stock_data \in StockDataInputs
    /\ current_price \in PipelinePrices
    \* only the API takes a period from the client, and fetches nothing
    \* when the period is invalid
    /\ period \notin Periods =>
          caller = "api" /\ stock_data = None /\ current_price = None
    \* a direct caller of the predictor fetches no price
    /\ caller = "direct" => current_price = None
    /\ pc = "start"
    /\ ensemble_predictions = None
    /\ Fresh
    /\ PipelineOnly

(***************************************************************************)
(* The prediction request                                                  *)
(***************************************************************************)
\* a handler that answers a failure with a default hold
HTTPException_as_hold(code, msg) ==
    [kind |-> "ok", status |-> 200, detail |-> msg, recommendation |-> "hold"]

HTTPException(code, msg) ==
    [kind |-> "error", status |-> code, detail |-> msg,
     recommendation |-> "none"]

\* predict_stock_price up to the construction of the predictor; the
\* analysis page up to the same point
StartRequest ==
    /\ pc = "start"
    /\ \/ /\ caller = "api"
          /\ IF period \notin Periods
             THEN /\ response' = HTTPException(400, "Invalid period")
                  /\ pc' = "done"
             ELSE IF is_absent(stock_data)
             THEN /\ response' = HTTPException(404, "Stock data not found")
                  /\ pc' = "done"
             ELSE IF current_price.k = "None"
             THEN /\ response' = HTTPException(404, "Current price not found")
                  /\ pc' = "done"
             ELSE /\ response' = response
                  /\ pc' = "models"
       \/ /\ caller = "page"
          /\ IF is_absent(stock_data)
             THEN /\ response' = [kind |-> "error", status |-> 0,
                                  detail |-> "Unable to fetch stock data. Please try again later.",
                                  recommendation |-> "none"]
                  /\ pc' = "done"
             ELSE /\ response' = response
                  /\ pc' = "models"
       \/ /\ caller = "direct"
          /\ response' = response
          /\ pc' = "models"
    /\ UNCHANGED <<caller, period, stock_data, current_price, next_model,
                   predictions, model_outcome, calls, fitted, error_escaped,
                   ensemble_predictions, recommendation, explanation,
                   returns, rec_calls, figure>>
    /\ UNCHANGED notPipeline

\* one iteration of "for model_name, predict_func in self.models.items()"
RunModel ==
    /\ pc = "models"
    /\ \E o \in Oracles :
          LET m == ModelOrder[next_model]
              r == predict_func(m, stock_data, o)
          IN /\ calls' = [calls EXCEPT ![m] = @ + 1]
             /\ fitted' = [fitted EXCEPT ![m] = r.fitted]
             /\ model_outcome' =
                   [model_outcome EXCEPT ![m] =
                       IF r.value.k # "None" THEN "ok"
                       ELSE IF r.fitted THEN "exception" ELSE "none"]
             /\ IF r.escaped
                \* "except Exception as e" of ensemble_prediction
                THEN /\ predictions' = predictions
                     /\ next_model' = next_model
                     /\ pc' = "returned"
                ELSE /\ predictions' = [predictions EXCEPT ![m] = r.value]
                     /\ next_model' = next_model + 1
                     /\ pc' = IF next_model = Len(ModelOrder)
                              THEN "combine" ELSE "models"
    \* each predict_with_* calls prepare_data once
    /\ stock_data' = stock_data_after_sort(stock_data)
    /\ UNCHANGED <<caller, period, current_price, error_escaped,
                   ensemble_predictions, recommendation, explanation,
                   returns, rec_calls, response, figure>>
    /\ UNCHANGED notPipeline

\* ensemble_prediction after the loop, up to its return
EnsembleCombine ==
    /\ pc = "combine"
    /\ ensemble_predictions' = combine(predictions)
    /\ pc' = "returned"
    /\ UNCHANGED <<caller, period, stock_data, current_price, next_model,
                   predictions, model_outcome, calls, fitted, error_escaped,
                   recommendation, explanation, returns, rec_calls, response,
                   figure>>
    /\ UNCHANGED notPipeline

\* a caller that never tests the result of ensemble_prediction
no_forecast_unchecked(e) == FALSE

\* "if ensemble_predictions is None" in the callers
no_forecast(e) == e.k = "None"

\* the caller after ensemble_prediction returned
Respond ==
    /\ pc = "returned"
    /\ pc' = "done"
    /\ IF caller = "direct"
       THEN /\ response' = [kind |-> "returned", status |-> 0, detail |-> "",
                            recommendation |-> "none"]
            /\ UNCHANGED <<recommendation, explanation, returns, rec_calls,
                           stock_data, figure>>
       ELSE IF no_forecast(ensemble_predictions)
       THEN /\ response' =
                  IF caller = "api"
                  THEN HTTPException(500, "Failed to generate predictions")
                  ELSE [kind |-> "error", status |-> 0,
                        detail |-> "Unable to generate predictions. Please try again later.",
                        recommendation |-> "none"]
            /\ UNCHANGED <<recommendation, explanation, returns, rec_calls,
                           stock_data, figure>>
       ELSE LET g == generate_recommendation(ensemble_predictions, current_price)
            IN /\ recommendation' = g.recommendation
               /\ explanation' = g.explanation
               /\ returns' = g.returns
               /\ rec_calls' = rec_calls + 1
               /\ response' = [kind |-> "ok",
                               status |-> IF caller = "api" THEN 200 ELSE 0,
                               detail |-> "",
                               recommendation |-> g.recommendation]
               \* the analysis page then draws the forecast
               /\ IF caller = "page"
                  THEN LET p == plot_prediction(ensemble_predictions, stock_data)
                       IN /\ figure' = p.figure
                          /\ stock_data' = p.stock_data
                  ELSE UNCHANGED <<stock_data, figure>>
    /\ UNCHANGED <<caller, period, current_price, next_model,
                   predictions, model_outcome, calls, fitted, error_escaped,
                   ensemble_predictions>>
    /\ UNCHANGED notPipeline

Next == StartRequest \/ RunModel \/ EnsembleCombine \/ Respond

Spec == Init /\ [][Next]_vars

(***************************************************************************)
(* The recommendation engine called on its own: generate_recommendation    *)
(* applied to an ensemble forecast and a price drawn from bounded sets.    *)
(***************************************************************************)
\* a forecast whose rows 1..7 average BasePrice + s, whose rows 8..14
\* average BasePrice + m, whose rows up to the last but one are at
\* BasePrice + x and whose last row is BasePrice + l, all shifted by off
RecForecast(s, m, x, l, off) ==
    [i \in 1..forecast_days |->
        BasePrice + off
          + (IF i <= 7 THEN s + (i - 4)
             ELSE IF i <= 14 THEN m + (i - 11)
             ELSE IF i < forecast_days THEN x
             ELSE l)]

RecDates == date_range(FirstDate, forecast_days)

\* the models of surv return forecasts that spread around the shape, the
\* others return None
RecPredictions(surv, s, m, x, l) ==
    LET IsIn(c) == c \in surv
        valid == SelectSeq(ModelOrder, IsIn)
        pos(c) == CHOOSE j \in 1..Len(valid) : valid[j] = c
    IN [c \in Models |->
           IF c \in surv
           THEN ForecastFrame(RecDates,
                    RecForecast(s, m, x, l, 2 * pos(c) - Len(valid) - 1))
           ELSE None]

\* pd.DataFrame(): no column, no row
EmptyFrame == [k |-> "df", index |-> <<>>, columns |-> <<>>,
               data |-> [c \in {} |-> <<>>]]

RecPrices == {None, Num(0), Num(-BasePrice), Num(BasePrice)}

RecInit ==
    /\ caller = "direct"
    /\ period = "1month"
    /\ stock_data = None
    /\ pc = "recommend"
    /\ \/ ensemble_predictions = EmptyFrame /\ Fresh
       \/ \E surv \in SUBSET Models, s \in -MaxShort..MaxShort,
             m \in -MaxMedium..MaxMedium, l \in -MaxLong..MaxLong,
             x \in {-50, 50} :
             /\ Fresh
             /\ ensemble_predictions = combine(RecPredictions(surv, s, m, x, l))
    /\ PipelineOnly
    /\ current_price \in RecPrices

\* one call predictor.generate_recommendation(ensemble_pred, current_price)
DirectRecommend ==
    /\ pc = "recommend"
    /\ pc' = "done"
    /\ LET g == generate_recommendation(ensemble_predictions, current_price)
       IN /\ recommendation' = g.recommendation
          /\ explanation' = g.explanation
          /\ returns' = g.returns
          /\ error_escaped' = g.raised
          /\ rec_calls' = rec_calls + 1
          /\ response' = [kind |-> "returned", status |-> 0, detail |-> "",
                          recommendation |-> g.recommendation]
    /\ UNCHANGED <<caller, period, stock_data, current_price, next_model,
                   predictions, model_outcome, calls, fitted,
                   ensemble_predictions, figure>>
    /\ UNCHANGED notPipeline

RecNext == DirectRecommend

SpecRecommend == RecInit /\ [][RecNext]_vars

(***************************************************************************)
(* The three models as tasks: each task reads the series, fits and         *)
(* forecasts on its own schedule and stores its result under its own key   *)
(* of predictions; the combiner runs once all three results are in.        *)
(***************************************************************************)
TaskSeries == {None} \cup {MkSeries(n, TRUE) : n \in SeriesLens}

\* a task fails, or forecasts a low, a middle or a high level
TaskOracles ==
    {[raises |-> TRUE, forecast |-> <<>>]}
        \cup {[raises |-> FALSE,
                forecast |-> [i \in 1..forecast_days |->
                                 BasePrice + 6 * l + MaxTrend * i]] :
                    l \in {-MaxLevel, 0, MaxLevel}}

TaskInit ==
    /\ caller = "direct"
    /\ period = "1month"
    /\ stock_data \in TaskSeries
    /\ current_price = None
    /\ pc = "tasks"
    /\ ensemble_predictions = None
    /\ Fresh
    /\ oracle \in [Models -> TaskOracles]
    /\ seen = [m \in Models |-> Unread]
    /\ run_order = <<>>
    /\ NoLstm /\ NoPortfolio /\ NoSessions /\ NoDbCalls

\* predict_func up to the return of prepare_data
TaskRead(m) ==
    /\ pc = "tasks"
    /\ seen[m].k = "unread"
    /\ seen' = [seen EXCEPT ![m] = stock_data]
    /\ stock_data' = stock_data_after_sort(stock_data)
    /\ calls' = [calls EXCEPT ![m] = @ + 1]
    /\ UNCHANGED <<caller, period, current_price, pc, next_model,
                   predictions, model_outcome, fitted, error_escaped,
                   ensemble_predictions, recommendation, explanation,
                   returns, rec_calls, response, figure, oracle, run_order>>
    /\ UNCHANGED notTasks

\* the rest of predict_func and "predictions[model_name] = ..."
TaskFinish(m) ==
    /\ pc = "tasks"
    /\ seen[m].k # "unread"
    /\ m \notin Range(run_order)
    /\ LET r == predict_func(m, seen[m], oracle[m])
       IN /\ predictions' = [predictions EXCEPT ![m] = r.value]
          /\ fitted' = [fitted EXCEPT ![m] = r.fitted]
          /\ model_outcome' =
                [model_outcome EXCEPT ![m] =
                    IF r.value.k # "None" THEN "ok"
                    ELSE IF r.fitted THEN "exception" ELSE "none"]
          /\ error_escaped' = (error_escaped \/ r.escaped)
    /\ run_order' = Append(run_order, m)
    /\ UNCHANGED <<caller, period, stock_data, current_price, pc, next_model,
                   calls, ensemble_predictions, recommendation, explanation,
                   returns, rec_calls, response, figure, oracle, seen>>
    /\ UNCHANGED notTasks

\* the results are joined and combined
JoinCombine ==
    /\ pc = "tasks"
    /\ Len(run_order) = Len(ModelOrder)
    /\ ensemble_predictions' = combine_in(run_order, predictions)
    /\ pc' = "joined"
    /\ UNCHANGED <<caller, period, stock_data, current_price, next_model,
                   predictions, model_outcome, calls, fitted, error_escaped,
                   recommendation, explanation, returns, rec_calls, response,
                   figure>>
    /\ UNCHANGED taskVars
    /\ UNCHANGED notTasks

TaskNext ==
    \/ \E m \in Models : TaskRead(m)
    \/ \E m \in Models : TaskFinish(m)
    \/ JoinCombine

SpecTasks == TaskInit /\ [][TaskNext]_vars

(***************************************************************************)
(* Properties of the pipeline (Spec)                                       *)
(***************************************************************************)
\* ensemble_prediction has returned to its caller
EnsembleReturned ==
    pc = "returned" \/ (pc = "done" /\ calls["ARIMA"] > 0)

Survivors == {m \in Models : model_outcome[m] = "ok"}

HasForecast == ensemble_predictions.k # "None"

\* the forecast of model m on row i, nothing for a failed model
SurvivorPrice(m, i) ==
    IF m \in Survivors THEN predictions[m].predicted_price[i] ELSE 0

\* C1: on every date the 'ensemble' column is the arithmetic mean of the
\* predicted_price of exactly the models that returned a forecast; a failed
\* model counts neither as zero nor as a missing value.
C1_EnsembleIsMean ==
    (EnsembleReturned /\ Survivors # {}) =>
        /\ HasForecast
        /\ \A i \in 1..Len(ensemble_predictions.index) :
              LET e == ensemble_predictions.data["ensemble"][i]
                  total == SurvivorPrice("ARIMA", i) + SurvivorPrice("LSTM", i)
                             + SurvivorPrice("Prophet", i)
              IN /\ e.k = "num"
                 /\ e.n * Cardinality(Survivors) = total * e.d
                 /\ \A m \in Survivors :
                       predictions[m].index[i] = ensemble_predictions.index[i]

C1_Witness ==
    /\ pc = "done"
    /\ model_outcome["ARIMA"] = "ok"
    /\ model_outcome["LSTM"] = "exception"
    /\ model_outcome["Prophet"] = "ok"
    /\ predictions["ARIMA"].predicted_price[1] = BasePrice - 6
    /\ predictions["Prophet"].predicted_price[1] = BasePrice + 7
    /\ ensemble_predictions.data["ensemble"][1] = Rat(2 * BasePrice + 1, 2)

\* C2: whichever models fail, each of the three is called once, no error
\* leaves ensemble_prediction, the result has one column per succeeding
\* model plus 'ensemble', and the caller still gets a recommendation.
C2_FailuresIsolated ==
    /\ ~error_escaped
    /\ pc \in {"combine", "returned"} \/ EnsembleReturned =>
          \A m \in Models : calls[m] = 1
    /\ (EnsembleReturned /\ Survivors # {}) =>
          /\ HasForecast
          /\ LET IsOk(m) == m \in Survivors
             IN ensemble_predictions.columns
                    = SelectSeq(ModelOrder, IsOk) \o <<"ensemble">>
          /\ DOMAIN ensemble_predictions.data = Survivors \cup {"ensemble"}
    /\ (pc = "done" /\ caller # "direct" /\ Survivors # {}) =>
          /\ rec_calls = 1
          /\ recommendation \in {"buy", "sell", "hold"}
          /\ response.kind = "ok"
          /\ response.recommendation = recommendation

C2_Witness ==
    /\ pc = "done"
    /\ caller = "api"
    /\ model_outcome["ARIMA"] = "exception"
    /\ model_outcome["LSTM"] = "ok"
    /\ model_outcome["Prophet"] = "ok"
    /\ ensemble_predictions.columns = <<"LSTM", "Prophet", "ensemble">>
    /\ response.recommendation \in {"buy", "sell", "hold"}

\* C3: when all three models fail the caller gets a failure (no forecast
\* from ensemble_prediction, an error response from the request) and
\* generate_recommendation is not run, so there is neither a recommendation
\* nor a default forecast.
C3_AllFailReported ==
    (EnsembleReturned /\ Survivors = {}) =>
        /\ ~HasForecast
        /\ rec_calls = 0
        /\ recommendation = "none"
        /\ (pc = "done" /\ caller # "direct") =>
              /\ response.kind = "error"
              /\ response.recommendation = "none"
              /\ caller = "api" => response.status = 500

C3_Witness ==
    /\ pc = "done"
    /\ caller = "api"
    /\ \A m \in Models : model_outcome[m] = "exception"
    /\ response.status = 500

\* C8: a response carries a recommendation only when ensemble_prediction
\* returned a forecast, and a run in which it returned none ends in an
\* error that carries no recommendation.
C8_FailureNotHold ==
    /\ response.recommendation # "none" =>
          /\ HasForecast
          /\ response.kind = "ok"
          /\ rec_calls = 1
    /\ (pc = "done" /\ caller # "direct" /\ ~HasForecast) =>
          /\ response.kind = "error"
          /\ response.recommendation = "none"

C8_Witness ==
    /\ pc = "done"
    /\ caller = "page"
    /\ HasForecast
    /\ response.kind = "ok"
    /\ response.recommendation = "hold"

\* the latest date among rows lo..hi of the historical series
RECURSIVE LatestBetween(_, _)
LatestBetween(lo, hi) ==
    IF lo >= hi THEN stock_data.rows[lo].date
    ELSE LET mid == (lo + hi) \div 2
             a == LatestBetween(lo, mid)
             b == LatestBetween(mid + 1, hi)
         IN IF a > b THEN a ELSE b

\* forecast_days consecutive days after the latest historical date
ExpectedDates ==
    LET latest == LatestBetween(1, Len(stock_data.rows))
    IN [i \in 1..forecast_days |-> latest + i]

\* C9: every model forecast and the ensemble are indexed by forecast_days
\* consecutive calendar days, the first being the day after the latest
\* historical date, also for a series delivered newest first.
C9_ForecastDates ==
    (\E m \in Models : predictions[m].k # "None") =>
        LET expected == ExpectedDates
        IN /\ \A m \in Models :
                 predictions[m].k # "None" =>
                     /\ predictions[m].index = expected
                     /\ Len(predictions[m].predicted_price) = forecast_days
           /\ (EnsembleReturned /\ HasForecast) =>
                 /\ ensemble_predictions.index = expected
                 /\ \A c \in DOMAIN ensemble_predictions.data :
                       Len(ensemble_predictions.data[c]) = forecast_days

C9_Witness ==
    /\ pc = "done"
    /\ stock_data.k = "df"
    /\ Len(stock_data.rows) > 1
    /\ stock_data.rows[1].date > stock_data.rows[2].date
    /\ \A m \in Models : model_outcome[m] = "ok"
    /\ ensemble_predictions.index[1] = stock_data.rows[1].date + 1
    /\ ensemble_predictions.index[forecast_days]
          = stock_data.rows[1].date + forecast_days

\* C10: on an empty or absent series no model goes past the prepare_data
\* check and ensemble_prediction returns no forecast.
C10_EmptyShortCircuits ==
    is_absent(stock_data) =>
        /\ \A m \in Models :
              /\ ~fitted[m]
              /\ predictions[m].k = "None"
              /\ model_outcome[m] \in {"pending", "none"}
        /\ ~HasForecast

C10_Witness ==
    /\ pc = "done"
    /\ stock_data = EmptySeries
    /\ \A m \in Models : calls[m] = 1 /\ model_outcome[m] = "none"
    /\ response.kind = "returned"

(***************************************************************************)
(* Properties of the recommendation engine (SpecRecommend)                 *)
(***************************************************************************)
\* generate_recommendation ran its decision logic
Decided == pc = "done" /\ returns # NoReturns

\* C4: the label and confidence follow the first matching rule, in order:
\* short > 5, medium > 3, long > 0: buy, high; short > 3, medium > 0: buy,
\* moderate; short < -5, medium < -3, long < 0: sell, high; short < -3,
\* medium < 0: sell, moderate; otherwise hold, moderate.  The comparisons are
\* strict.
C4_ClassificationRules ==
    Decided =>
        LET s == returns.short
            m == returns.medium
            l == returns.long
            Is(label, conf) ==
                recommendation = label /\ explanation.confidence = conf
        IN IF GT(s, 5) /\ GT(m, 3) /\ GT(l, 0) THEN Is("buy", "High")
           ELSE IF GT(s, 3) /\ GT(m, 0) THEN Is("buy", "Moderate")
           ELSE IF LT(s, -5) /\ LT(m, -3) /\ LT(l, 0) THEN Is("sell", "High")
           ELSE IF LT(s, -3) /\ LT(m, 0) THEN Is("sell", "Moderate")
           ELSE Is("hold", "Moderate")

\* a short return exactly on the 5 percent threshold is not a high buy
C4_Witness ==
    /\ Decided
    /\ returns.short = Num(5)
    /\ returns.medium = Num(4)
    /\ returns.long = Num(1)
    /\ recommendation = "buy"
    /\ explanation.confidence = "Moderate"

\* C5: generate_recommendation returns hold, without raising, whenever the
\* ensemble forecast is absent or current_price is absent, zero or negative.
C5_HoldOnInvalidInput ==
    (/\ pc = "done"
     /\ \/ ensemble_predictions.k = "None"
        \/ current_price.k = "None"
        \/ current_price.n <= 0) =>
        /\ recommendation = "hold"
        /\ ~error_escaped

\* C6: short is the mean of ensemble rows 1 to 7, medium the mean of rows
\* 8 to 14, long the last row, each turned into
\* (value - current_price) / current_price * 100; no other row counts.
C6_HorizonReturns ==
    (Decided /\ current_price.n # 0) =>
        LET col == ensemble_predictions.data["ensemble"]
            p == current_price
            \* ret = (total / rows - p) / p * 100, cross-multiplied
            IsReturn(ret, total, rows) ==
                /\ ret.k = "num"
                /\ ret.n * (rows * total.d * p.n)
                      = 100 * (total.n * p.d - rows * p.n * total.d) * ret.d
        IN /\ IsReturn(returns.short, SumSeq(SubSeq(col, 1, 7)), 7)
           /\ IsReturn(returns.medium, SumSeq(SubSeq(col, 8, 14)), 7)
           /\ IsReturn(returns.long, col[forecast_days], 1)

C6_Witness ==
    /\ Decided
    /\ current_price = Num(BasePrice)
    /\ ensemble_predictions.data["ensemble"][1] = Num(BasePrice + 3)
    /\ ensemble_predictions.data["ensemble"][8] = Num(BasePrice - 5)
    /\ ensemble_predictions.data["ensemble"][15] = Num(BasePrice + 50)
    /\ returns.short = Rat(600, BasePrice)
    /\ returns.medium = Rat(-200, BasePrice)
    /\ returns.long = Rat(100, BasePrice)

\* C7: for every outcome the rationale reports the short, medium and long
\* return and holds, for each model column and not for 'ensemble', one
\* signal: Bullish when the model's last forecast is above current_price,
\* Bearish when it is below.
C7_RationaleComplete ==
    Decided =>
        /\ DOMAIN explanation.reports = {"short", "medium", "long"}
        /\ \A h \in DOMAIN explanation.reports :
              explanation.reports[h] = format_2f(returns[h])
        /\ LET models == DOMAIN ensemble_predictions.data \ {"ensemble"}
               sig == explanation.model_signals
           IN /\ Len(sig) = Cardinality(models)
              /\ \A c \in models :
                    \E j \in 1..Len(sig) :
                       /\ sig[j].model = c
                       /\ LET last == ensemble_predictions.data[c][forecast_days]
                          IN /\ GTnum(last, current_price)
                                   => sig[j].signal = "Bullish"
                             /\ GTnum(current_price, last)
                                   => sig[j].signal = "Bearish"

(***************************************************************************)
(* The predictor reads the caller's frame and never changes it (Spec)      *)
(***************************************************************************)
\* C11: no operation of the predictor (prepare_data, the three models,
\* ensemble_prediction, generate_recommendation, plot_prediction) changes
\* the rows of stock_data or their order.
C11_StockDataUntouched == [][stock_data' = stock_data]_vars

\* the page finished on a newest-first series: the models and
\* plot_prediction each sorted their copy, the series is still newest first
C11_Witness ==
    /\ pc = "done"
    /\ caller = "page"
    /\ figure = "figure"
    /\ \A m \in Models : calls[m] = 1 /\ fitted[m]
    /\ stock_data.k = "df"
    /\ Len(stock_data.rows) > 1
    /\ stock_data.rows[1].date > stock_data.rows[2].date

(***************************************************************************)
(* Properties of the model tasks (SpecTasks)                               *)
(***************************************************************************)
\* what each model returns when it runs alone on the caller's series
OwnResult == [m \in Models |-> predict_func(m, stock_data, oracle[m]).value]

LstmLens ==
    {ShortLen, look_back + batch_size - 1}
        \cup {look_back + b * batch_size + e :
                 b \in 0..MaxBatches, e \in 0..MaxExtra}

LstmSeries == {None} \cup {MkSeries(n, TRUE) : n \in LstmLens}

\* the fitted network answers a low or a high level
LstmOracles ==
    {[raises |-> FALSE,
      forecast |-> [i \in 1..forecast_days |->
                       BasePrice + 6 * l + MaxTrend * i]] :
          l \in {-MaxLevel, MaxLevel}}

Losses == {NaN} \cup {Num(i) : i \in 0..MaxLoss}

LstmInit ==
    /\ caller = "direct"
    /\ period = "1month"
    /\ stock_data \in LstmSeries
    /\ current_price = None
    /\ pc = "idle"
    /\ ensemble_predictions = None
    /\ Fresh
    /\ \E o \in LstmOracles :
          oracle = [m \in Models |-> IF m = "LSTM" THEN o ELSE NoOracle]
    /\ seen = [m \in Models |-> Unread]
    /\ run_order = <<>>
    /\ lstm_pc = "start"
    /\ LstmNotStarted
    /\ NoPortfolio /\ NoSessions /\ NoDbCalls

notLstm == <<pipelineRest, taskVars, portVars, authVars, dbVars>>

\* from "df = self.prepare_data()" to the start of the training loop
LstmPrepare ==
    /\ lstm_pc = "start"
    /\ LET d == prepare_data(stock_data)
       IN /\ df' = d
          /\ IF d.k = "None"
             THEN /\ lstm_result' = None
                  /\ lstm_pc' = "done"
                  /\ UNCHANGED <<n_pairs, scaler>>
             ELSE /\ scaler' = [k |-> "scaler", lo |-> close_min(d),
                                hi |-> close_max(d)]
                  /\ IF Len(d.rows) <= look_back
                     \* no training pair: x_train.shape[1] raises IndexError
                     THEN /\ lstm_result' = on_exception(TRUE).value
                          /\ lstm_pc' = "done"
                          /\ n_pairs' = 0
                     ELSE /\ lstm_result' = lstm_result
                          /\ lstm_pc' = "train"
                          /\ n_pairs' = Len(d.rows) - look_back
    /\ stock_data' = stock_data_after_sort(stock_data)
    /\ UNCHANGED <<epoch, early_stop_counter, best_loss, min_loss_seen,
                   last_improved, batch_uses, inputs, predicted_prices>>
    /\ UNCHANGED notLstm

\* the least of two losses, nan left aside
least_loss(a, b) == IF loss_lt(a, b) THEN a ELSE b

\* one iteration of "for epoch in range(epochs)"
TrainEpoch ==
    /\ lstm_pc = "train"
    /\ epoch < epochs
    /\ early_stop_counter < patience
    /\ LET nb == n_batches(df)
       IN IF nb = 0
          \* "avg_loss = epoch_loss / n_batches" raises ZeroDivisionError
          THEN /\ lstm_result' = on_exception(TRUE).value
               /\ lstm_pc' = "done"
               /\ UNCHANGED <<epoch, early_stop_counter, best_loss,
                              min_loss_seen, last_improved, batch_uses>>
          ELSE \E avg_loss \in Losses :
                  LET e == early_stop(avg_loss, best_loss, early_stop_counter)
                  IN /\ batch_uses' = epoch_batches(n_pairs, nb)
                     /\ best_loss' = e.best_loss
                     /\ early_stop_counter' = e.early_stop_counter
                     /\ epoch' = epoch + 1
                     /\ min_loss_seen' = least_loss(avg_loss, min_loss_seen)
                     /\ last_improved' =
                           IF loss_lt(avg_loss, min_loss_seen)
                           THEN epoch + 1 ELSE last_improved
                     /\ UNCHANGED <<lstm_result, lstm_pc>>
    /\ UNCHANGED <<stock_data, df, scaler, n_pairs, inputs, predicted_prices>>
    /\ UNCHANGED notLstm

\* the loop is left; "inputs = scaled_data[-look_back:].copy()"
StartForecast ==
    /\ lstm_pc = "train"
    /\ epoch = epochs \/ early_stop_counter >= patience
    /\ LET sd == scaled_data(df)
       IN inputs' = SubSeq(sd, Len(sd) - look_back + 1, Len(sd))
    /\ lstm_pc' = "forecast"
    /\ UNCHANGED <<stock_data, df, scaler, n_pairs, epoch, early_stop_counter,
                   best_loss, min_loss_seen, last_improved, batch_uses,
                   predicted_prices, lstm_result>>
    /\ UNCHANGED notLstm

\* one iteration of "for _ in range(self.forecast_days)"
ForecastStep ==
    /\ lstm_pc = "forecast"
    /\ Len(predicted_prices) < forecast_days
    /\ LET step == Len(predicted_prices) + 1
           next_pred == [k |-> "pred", i |-> step,
                         v |-> scale(oracle["LSTM"].forecast[step],
                                     scaler.lo, scaler.hi)]
       IN /\ predicted_prices' = Append(predicted_prices, next_pred)
          /\ inputs' = slide_window(inputs, next_pred)
    /\ UNCHANGED <<stock_data, df, scaler, lstm_pc, n_pairs, epoch,
                   early_stop_counter, best_loss, min_loss_seen,
                   last_improved, batch_uses, lstm_result>>
    /\ UNCHANGED notLstm

\* from the inverse scaling to "return forecast_df"
LstmReturn ==
    /\ lstm_pc = "forecast"
    /\ Len(predicted_prices) = forecast_days
    /\ lstm_result' =
          ForecastFrame(date_range(last_date(df) + 1, forecast_days),
                        [j \in 1..Len(predicted_prices) |->
                            inverse_transform(predicted_prices[j].v,
                                              scaler.lo, scaler.hi).n])
    /\ lstm_pc' = "done"
    /\ UNCHANGED <<stock_data, df, scaler, n_pairs, epoch, early_stop_counter,
                   best_loss, min_loss_seen, last_improved, batch_uses,
                   inputs, predicted_prices>>
    /\ UNCHANGED notLstm

LstmNext ==
    LstmPrepare \/ TrainEpoch \/ StartForecast \/ ForecastStep \/ LstmReturn

SpecLstm == LstmInit /\ [][LstmNext]_vars

(***************************************************************************)
(* Properties of the sequence model (SpecLstm)                             *)
(***************************************************************************)
\* the training loop was left and the forecast began
Trained == lstm_pc = "forecast" \/ (lstm_pc = "done" /\ lstm_result.k = "df")

\* C13: the training loop runs at most 25 epochs; early_stop_counter is the
\* number of epochs since the last one whose average loss was below every
\* earlier one (an equal loss is no improvement), it never exceeds 5 and no
\* epoch runs once it is 5, so the loop is left at 25 epochs or at the
\* first epoch that makes it 5; best_loss is the least loss seen so far.
C13_EarlyStop ==
    /\ [](/\ epoch <= 25
          /\ early_stop_counter <= 5
          /\ early_stop_counter = epoch - last_improved
          /\ best_loss = min_loss_seen
          /\ Trained => (epoch = 25 \/ early_stop_counter = 5))
    /\ [][epoch' # epoch =>
             /\ epoch' = epoch + 1
             /\ epoch < 25
             /\ early_stop_counter < 5]_vars

\* the loss improved after the first epoch, then failed to improve five
\* times in a row, and the loop was left before the 25th epoch
C13_Witness ==
    /\ lstm_pc = "forecast"
    /\ last_improved > 1
    /\ epoch = last_improved + 5
    /\ epoch < 25
    /\ early_stop_counter = 5
    /\ best_loss.k = "num"

\* C14: in every epoch that ran, every training pair was held by exactly
\* one mini-batch.
C14_EveryPairOncePerEpoch ==
    epoch >= 1 => \A q \in 1..n_pairs : batch_uses[q] = 1

\* C15: the window fed to the network always holds look_back = 60 values:
\* after k forecasting steps the last max(60 - k, 0) scaled closes followed
\* by the latest min(k, 60) predictions in the order they were made; the
\* loop makes exactly forecast_days predictions.
C15_ForecastWindow ==
    Trained =>
        LET k == Len(predicted_prices)
            sd == scaled_data(df)
            n == Len(sd)
            kept == IF k < 60 THEN 60 - k ELSE 0
            recent == IF k < 60 THEN k ELSE 60
        IN /\ Len(inputs) = 60
           /\ \A j \in 1..kept : inputs[j] = sd[n - kept + j]
           /\ \A j \in 1..recent :
                 /\ inputs[kept + j] = predicted_prices[k - recent + j]
                 /\ inputs[kept + j].i = k - recent + j
           /\ k <= forecast_days
           /\ lstm_pc = "done" =>
                 /\ k = forecast_days
                 /\ Len(lstm_result.predicted_price) = forecast_days

\* the forecast is complete: the window holds the last 30 scaled closes
\* and then the 30 predictions
C15_Witness ==
    /\ lstm_pc = "done"
    /\ Len(predicted_prices) = 30
    /\ Len(inputs) = 60
    /\ inputs[30].k = "hist"
    /\ inputs[30].i = Len(df.rows)
    /\ inputs[31].k = "pred"
    /\ inputs[31].i = 1
    /\ inputs[60].i = 30

\* closing prices in the series passed to the predictor
SeriesRows == IF stock_data.k = "None" THEN 0 ELSE Len(stock_data.rows)

\* C16: on a series of fewer than 92 closing prices predict_with_lstm
\* returns None without training an epoch or forecasting; on 92 or more it
\* trains and returns a forecast of forecast_days rows.
C16_LstmThreshold ==
    /\ (lstm_pc = "train" /\ epoch >= 1) \/ lstm_pc = "forecast"
          => SeriesRows >= 92
    /\ lstm_pc = "done" =>
          /\ SeriesRows < 92 =>
                /\ lstm_result = None
                /\ epoch = 0
                /\ predicted_prices = <<>>
          /\ SeriesRows >= 92 =>
                /\ lstm_result.k = "df"
                /\ epoch >= 1
                /\ Len(lstm_result.predicted_price) = forecast_days
          /\ lstm_result = predict_with_lstm(stock_data, oracle["LSTM"]).value

\* 91 closing prices give 31 training pairs and no batch: the first epoch
\* fails and the model returns None
C16_Witness ==
    /\ lstm_pc = "done"
    /\ SeriesRows = 91
    /\ n_pairs = 31
    /\ epoch = 0
    /\ lstm_result = None

(***************************************************************************)
(* The portfolio table (src/database.py).  A row is a record with the key  *)
(* columns user_id and stock_symbol, quantity and average_buy_price; the   *)
(* table is the set of its rows, so that two rows with one key can be      *)
(* told apart from one.  Prices are exact rationals.                       *)
(***************************************************************************)
\* quantities of a call range over -MaxQty..MaxQty
MaxQty == 2

\* calls of add_to_portfolio in one run
MaxCalls == 3

PortUsers == {1, 2}

Symbols == {"AAA", "BBB"}

BuyPrices == {BasePrice, BasePrice + 1}

\* WHERE user_id = ? AND stock_symbol = ?
matches(r, user_id, stock_symbol) ==
    r.user_id = user_id /\ r.stock_symbol = stock_symbol

\* cursor.fetchone() after the SELECT: a row, or None
fetchone(table, user_id, stock_symbol) ==
    LET found == {r \in table : matches(r, user_id, stock_symbol)}
    IN IF found = {} THEN None
       ELSE LET r == CHOOSE x \in found : TRUE
            IN [k |-> "row", quantity |-> r.quantity,
                average_buy_price |-> r.average_buy_price]

\* UPDATE portfolio SET quantity = ?, average_buy_price = ? WHERE ...
update_quantity_and_price(table, user_id, stock_symbol, q, a) ==
    {IF matches(r, user_id, stock_symbol)
     THEN [r EXCEPT !.quantity = q, !.average_buy_price = a]
     ELSE r : r \in table}

\* UPDATE portfolio SET quantity = ? WHERE ...
update_quantity(table, user_id, stock_symbol, q) ==
    {IF matches(r, user_id, stock_symbol)
     THEN [r EXCEPT !.quantity = q]
     ELSE r : r \in table}

\* DELETE FROM portfolio WHERE ...
delete_row(table, user_id, stock_symbol) ==
    {r \in table : ~matches(r, user_id, stock_symbol)}

\* INSERT INTO portfolio ...: UNIQUE(user_id, stock_symbol) refuses a
\* second row with the key
insert_row(table, row) ==
    IF \E r \in table : matches(r, row.user_id, row.stock_symbol)
    THEN [k |-> "IntegrityError", table |-> table]
    ELSE [k |-> "ok", table |-> table \cup {row}]

\* the plain mean of the old average and the new price
new_avg_price_unweighted(current_quantity, current_avg_price, quantity, buy_price) ==
    Rat(current_avg_price.n + buy_price * current_avg_price.d,
        2 * current_avg_price.d)

\* ((current_quantity * current_avg_price) + (quantity * buy_price))
\*     / new_quantity
new_avg_price(current_quantity, current_avg_price, quantity, buy_price) ==
    Rat(current_quantity * current_avg_price.n
            + quantity * buy_price * current_avg_price.d,
        current_avg_price.d * (current_quantity + quantity))

\* a sale that removes the row only when more was sold than held
all_sold_strictly(new_quantity) == new_quantity < 0

\* "if new_quantity <= 0"
all_sold(new_quantity) == new_quantity <= 0

\* add_to_portfolio: the table after the call and the value returned
add_to_portfolio(table, user_id, stock_symbol, quantity, buy_price) ==
    LET result == fetchone(table, user_id, stock_symbol)
    IN IF result.k # "None"
       THEN IF quantity > 0
            THEN [table |-> update_quantity_and_price(
                               table, user_id, stock_symbol,
                               result.quantity + quantity,
                               new_avg_price(result.quantity,
                                             result.average_buy_price,
                                             quantity, buy_price)),
                  returned |-> TRUE]
            ELSE IF all_sold(result.quantity + quantity)
            THEN [table |-> delete_row(table, user_id, stock_symbol),
                  returned |-> TRUE]
            ELSE [table |-> update_quantity(table, user_id, stock_symbol,
                                            result.quantity + quantity),
                  returned |-> TRUE]
       ELSE IF quantity > 0
       THEN LET ins == insert_row(table,
                          [user_id |-> user_id, stock_symbol |-> stock_symbol,
                           quantity |-> quantity,
                           average_buy_price |-> Num(buy_price)])
            \* except Exception: return False
            IN [table |-> ins.table, returned |-> ins.k = "ok"]
       ELSE [table |-> table, returned |-> TRUE]

PortInit ==
    /\ PipelineIdle
    /\ NoTasks
    /\ NoLstm
    /\ NoPortfolio
    /\ NoSessions
    /\ NoDbCalls

\* one call add_to_portfolio(user_id, stock_symbol, quantity, buy_price)
AddToPortfolio ==
    /\ n_calls < MaxCalls
    /\ \E user_id \in PortUsers, stock_symbol \in Symbols,
          quantity \in -MaxQty..MaxQty, buy_price \in BuyPrices :
          LET a == add_to_portfolio(portfolio, user_id, stock_symbol,
                                    quantity, buy_price)
          IN /\ portfolio' = a.table
             /\ last_call' = [k |-> "call", user_id |-> user_id,
                              stock_symbol |-> stock_symbol,
                              quantity |-> quantity, buy_price |-> buy_price,
                              result |-> fetchone(portfolio, user_id, stock_symbol),
                              returned |-> a.returned]
    /\ n_calls' = n_calls + 1
    /\ UNCHANGED <<pipelineVars, taskVars, lstmVars, authVars, dbVars>>

PortNext == AddToPortfolio

SpecPortfolio == PortInit /\ [][PortNext]_vars

(***************************************************************************)
(* Properties of the portfolio (SpecPortfolio)                             *)
(***************************************************************************)
\* the rows of a table for one user and symbol
RowsOf(table, user_id, stock_symbol) ==
    {r \in table : matches(r, user_id, stock_symbol)}

\* C18: the table never holds two rows for one user and symbol nor a row
\* with a quantity of zero or less; a call with a quantity of zero or less
\* leaves no row for its key when the key had none or when the holding does
\* not exceed what is sold.
C18_PositiveUniqueRows ==
    /\ [](/\ \A r \in portfolio : r.quantity > 0
          /\ \A r1, r2 \in portfolio :
                matches(r1, r2.user_id, r2.stock_symbol) => r1 = r2)
    /\ [][n_calls' # n_calls =>
             LET c == last_call'
                 held == RowsOf(portfolio, c.user_id, c.stock_symbol)
                 left == RowsOf(portfolio', c.user_id, c.stock_symbol)
             IN c.quantity <= 0 =>
                   /\ held = {} => left = {}
                   /\ (\A r \in held : r.quantity + c.quantity <= 0)
                         => left = {}]_vars

\* a holding was sold in full: the call found a row, sold as much as it
\* held, and the table has no row for the key
C18_Witness ==
    /\ last_call.k = "call"
    /\ last_call.returned
    /\ last_call.quantity < 0
    /\ last_call.result.k = "row"
    /\ last_call.result.quantity + last_call.quantity = 0
    /\ RowsOf(portfolio, last_call.user_id, last_call.stock_symbol) = {}
    /\ portfolio # {}

\* C19: a buy of q at p on a holding of Q at average A leaves the one row
\* Q + q at (Q*A + q*p) / (Q + q); a first buy leaves the row q at p; a
\* sale of less than the holding lowers the quantity and keeps the average;
\* no call changes a row of another user or symbol.
C19_AveragedPrice ==
    [][n_calls' # n_calls =>
          LET c == last_call'
              held == RowsOf(portfolio, c.user_id, c.stock_symbol)
              left == RowsOf(portfolio', c.user_id, c.stock_symbol)
              q == c.quantity
              p == c.buy_price
          IN /\ portfolio \ held = portfolio' \ left
             /\ c.returned
             /\ \A r \in held :
                   LET Q == r.quantity
                       A == r.average_buy_price
                   IN /\ q > 0 =>
                            left = {[r EXCEPT
                                       !.quantity = Q + q,
                                       !.average_buy_price =
                                           Rat(Q * A.n + q * p * A.d,
                                               A.d * (Q + q))]}
                      /\ (q < 0 /\ Q + q > 0) =>
                            left = {[r EXCEPT !.quantity = Q + q]}
             /\ (held = {} /\ q > 0) =>
                   left = {[user_id |-> c.user_id,
                            stock_symbol |-> c.stock_symbol,
                            quantity |-> q,
                            average_buy_price |-> Num(p)]}]_vars

\* a buy of one share at the higher price on two shares bought at the
\* lower price, while the other user holds a row
C19_Witness ==
    /\ last_call.k = "call"
    /\ last_call.quantity = 1
    /\ last_call.buy_price = BasePrice + 1
    /\ last_call.result.k = "row"
    /\ last_call.result.quantity = 2
    /\ last_call.result.average_buy_price = Num(BasePrice)
    /\ \E r \in portfolio :
          /\ matches(r, last_call.user_id, last_call.stock_symbol)
          /\ r.quantity = 3
          /\ r.average_buy_price = Rat(3 * BasePrice + 1, 3)
    /\ \E r \in portfolio : r.user_id # last_call.user_id

(***************************************************************************)
(* Registration, login, logout and the token check of the HTTP API         *)
(* (src/api.py, src/auth.py, src/database.py).  Requests are served one    *)
(* after another by one server process; the clock has advanced whenever    *)
(* it is read again.  A token "<username>_<timestamp>" is the record of    *)
(* its two parts.  The password hash is taken to be free of collisions:    *)
(* the digest of a password under a salt is the pair of the two.           *)
(***************************************************************************)
\* the clock readings of one run are 1..MaxClock
MaxClock == 4

Usernames == {"alice", "bob"}

Passwords == {"apple", "berry"}

Salts == {"s1", "s2"}

\* what the clients send to /api/auth/register
RegisterInputs ==
    {[username |-> "alice", email |-> "alice@example.com", password |-> "apple"],
     [username |-> "bob", email |-> "bob@example.com", password |-> "berry"]}

\* f"{user.username}_{datetime.now().timestamp()}"
make_token(username, at) == [username |-> username, at |-> at]

\* the tokens a client may present, handed out or not
TokenInputs == {make_token(u, t) : u \in Usernames, t \in 1..MaxClock}

\* hashlib.pbkdf2_hmac('sha256', password, salt, 100000).hex()
pbkdf2_hmac(password, salt) == <<password, salt>>

\* hash_password with the salt secrets.token_hex(8) returned: salt + pwdhash
hash_password(password, salt) ==
    [k |-> "str", salt |-> salt, pwdhash |-> pbkdf2_hmac(password, salt)]

\* verify_password: slicing None raises TypeError
verify_password(stored_password, provided_password) ==
    IF stored_password.k = "None" THEN [k |-> "TypeError"]
    ELSE [k |-> "bool",
          v |-> pbkdf2_hmac(provided_password, stored_password.salt)
                   = stored_password.pwdhash]

\* check_user_exists
check_user_exists(table, username) == \E r \in table : r.username = username

\* an INSERT into a users table without UNIQUE columns
add_user_unconstrained(table, username, email, password) ==
    LET id == Cardinality(table) + 1
    IN [user_id |-> [k |-> "int", v |-> id],
        table |-> table \cup {[id |-> id, username |-> username,
                               email |-> email, password |-> password]}]

\* add_user: the id of the new row, None on sqlite3.IntegrityError
add_user(table, username, email, password) ==
    IF \E r \in table : r.username = username \/ r.email = email
    THEN [user_id |-> None, table |-> table]
    ELSE LET id == Cardinality(table) + 1
         IN [user_id |-> [k |-> "int", v |-> id],
             table |-> table \cup {[id |-> id, username |-> username,
                                    email |-> email, password |-> password]}]

\* verify_user: always a 3-tuple, (None, False, None) for an unknown name
verify_user(table, username) ==
    LET found == {r \in table : r.username = username}
    IN IF found = {}
       THEN [id |-> None, found |-> FALSE, password |-> None]
       ELSE LET r == CHOOSE x \in found : TRUE
            IN [id |-> [k |-> "int", v |-> r.id], found |-> TRUE,
                password |-> r.password]

\* "token not in active_sessions" and active_sessions[token]
session_of(sessions, token) ==
    LET found == {e \in sessions : e.token = token}
    IN IF found = {} THEN None
       ELSE LET e == CHOOSE x \in found : TRUE
            IN [k |-> "session", user_id |-> e.user_id, username |-> e.username]

\* get_current_user: the session, or HTTP 401
get_current_user(sessions, token) ==
    LET s == session_of(sessions, token)
    IN IF s.k = "None"
       THEN [status |-> 401, detail |-> "Invalid or expired token", user |-> None]
       ELSE [status |-> 200, detail |-> "", user |-> s]

\* active_sessions[token] = {"user_id": user_id, "username": username}
store_session(sessions, token, user_id, username) ==
    {e \in sessions : e.token # token}
        \cup {[token |-> token, user_id |-> user_id, username |-> username]}

\* a logout that ends every session of every user
tokens_of_everyone(sessions, current_user) == {e.token : e \in sessions}

\* tokens_to_remove: the tokens whose session has the caller's user_id
tokens_to_remove(sessions, current_user) ==
    {e.token : e \in {x \in sessions : x.user_id = current_user.user_id}}

AuthInit ==
    /\ PipelineIdle
    /\ NoTasks
    /\ NoLstm
    /\ NoPortfolio
    /\ NoSessions
    /\ NoDbCalls

notAuth == <<pipelineVars, taskVars, lstmVars, portVars, dbVars>>

\* POST /api/auth/register
RegisterUser ==
    /\ \E user \in RegisterInputs, salt \in Salts :
          IF check_user_exists(users, user.username)
          THEN /\ last_request' = [k |-> "register", username |-> user.username,
                                   token |-> None, status |-> 400]
               /\ users' = users
          ELSE LET a == add_user(users, user.username, user.email,
                                 hash_password(user.password, salt))
               IN /\ users' = a.table
                  /\ last_request' =
                        [k |-> "register", username |-> user.username,
                         token |-> None,
                         status |-> IF a.user_id.k = "None" THEN 500 ELSE 200]
    /\ UNCHANGED <<active_sessions, now, logins, logouts>>
    /\ UNCHANGED notAuth

\* POST /api/auth/login
LoginUser ==
    /\ now < MaxClock
    /\ \E username \in Usernames, password \in Passwords :
          LET user_data == verify_user(users, username)
              \* "if not user_data" is never taken: the tuple is not empty
              check == verify_password(user_data.password, password)
              token == make_token(username, now + 1)
          IN IF check.k = "TypeError"
             \* the error leaves the handler: HTTP 500
             THEN /\ last_request' = [k |-> "login", username |-> username,
                                      token |-> None, status |-> 500]
                  /\ UNCHANGED <<active_sessions, logins>>
             ELSE IF ~check.v
             THEN /\ last_request' = [k |-> "login", username |-> username,
                                      token |-> None, status |-> 401]
                  /\ UNCHANGED <<active_sessions, logins>>
             ELSE /\ active_sessions' =
                        store_session(active_sessions, token,
                                      user_data.id.v, username)
                  /\ logins' = logins \cup {[token |-> token,
                                             user_id |-> user_data.id.v,
                                             at |-> now + 1]}
                  /\ last_request' = [k |-> "login", username |-> username,
                                      token |-> token, status |-> 200]
    /\ now' = now + 1
    /\ UNCHANGED <<users, logouts>>
    /\ UNCHANGED notAuth

\* POST /api/auth/logout?token=...
LogoutUser ==
    /\ now < MaxClock
    /\ \E token \in TokenInputs :
          LET current == get_current_user(active_sessions, token)
          IN IF current.status # 200
             THEN /\ last_request' = [k |-> "logout", username |-> "",
                                      token |-> token, status |-> current.status]
                  /\ UNCHANGED <<active_sessions, logouts>>
             ELSE LET gone == tokens_to_remove(active_sessions, current.user)
                  IN /\ active_sessions' =
                           {e \in active_sessions : e.token \notin gone}
                     /\ logouts' = logouts \cup {[user_id |-> current.user.user_id,
                                                  at |-> now + 1]}
                     /\ last_request' =
                           [k |-> "logout", username |-> current.user.username,
                            token |-> token, status |-> 200]
    /\ now' = now + 1
    /\ UNCHANGED <<users, logins>>
    /\ UNCHANGED notAuth

\* any endpoint with Depends(get_current_user), up to the token check
ProtectedRequest ==
    /\ \E token \in TokenInputs :
          LET current == get_current_user(active_sessions, token)
          IN last_request' =
                [k |-> "protected",
                 username |-> IF current.status = 200
                              THEN current.user.username ELSE "",
                 token |-> token, status |-> current.status]
    /\ UNCHANGED <<users, active_sessions, now, logins, logouts>>
    /\ UNCHANGED notAuth

AuthNext == RegisterUser \/ LoginUser \/ LogoutUser \/ ProtectedRequest

SpecAuth == AuthInit /\ [][AuthNext]_vars

(***************************************************************************)
(* Properties of the sessions (SpecAuth)                                   *)
(***************************************************************************)
\* the token was handed out by a login whose user has not logged out since
LiveToken(token) ==
    \E l \in logins :
       /\ l.token = token
       /\ ~\E o \in logouts : o.user_id = l.user_id /\ o.at > l.at

\* the user_id of each registered name
UserId(username) ==
    LET r == CHOOSE x \in users : x.username = username IN r.id

\* C20: the token check passes exactly for the tokens handed out by a
\* successful login whose user has not logged out since, and answers 401
\* for every other token, a removed one included; a logout removes every
\* session of the calling user and no session of another user.
C20_SessionTokens ==
    /\ [](/\ \A token \in TokenInputs :
                /\ get_current_user(active_sessions, token).status = 200
                      <=> LiveToken(token)
                /\ ~LiveToken(token)
                      => get_current_user(active_sessions, token).status = 401
          /\ last_request.k = "protected" =>
                last_request.status =
                    get_current_user(active_sessions, last_request.token).status)
    /\ [][(last_request'.k = "logout" /\ last_request'.status = 200
              /\ now' # now) =>
             LET caller_id == UserId(last_request'.username)
             IN /\ \A e \in active_sessions' : e.user_id # caller_id
                /\ \A e \in active_sessions :
                      e.user_id # caller_id => e \in active_sessions']_vars

\* alice logged in twice and bob once, then alice logged out with one of
\* her tokens: bob's session is the only one left, and a request with
\* alice's other token was answered 401
C20_Witness ==
    /\ Cardinality(logins) = 3
    /\ Cardinality(logouts) = 1
    /\ Cardinality(active_sessions) = 1
    /\ \A e \in active_sessions : e.username = "bob"
    /\ last_request.k = "protected"
    /\ last_request.status = 401
    /\ \E l \in logins : l.token = last_request.token
    /\ last_request.token.username = "alice"

\* C21: a login creates a session only when the username is registered and
\* the password verifies; a login with an unregistered username, or with a
\* wrong password, is answered 401 and leaves active_sessions unchanged.
C21_FailedLoginIs401 ==
    [][(last_request'.k = "login" /\ now' # now) =>
          LET registered == check_user_exists(users, last_request'.username)
              failed == last_request'.status # 200
          IN /\ active_sessions' # active_sessions => registered /\ ~failed
             /\ ~registered => failed
             /\ failed => /\ last_request'.status = 401
                          /\ active_sessions' = active_sessions]_vars

(***************************************************************************)
(* Register requests served side by side.  register_user is a plain def,   *)
(* which the server runs on a pool of threads: between the SELECT of       *)
(* check_user_exists and the INSERT of add_user of one request, other      *)
(* requests take their steps.  Each statement is one step of the database. *)
(***************************************************************************)
Emails == {"alice@example.com", "bob@example.com"}

\* what the clients send to /api/auth/register, side by side
RegisterBodies ==
    {[username |-> u, email |-> e, password |-> "apple"] :
        u \in Usernames, e \in Emails}

RegisterInit ==
    /\ PipelineIdle
    /\ NoTasks
    /\ NoLstm
    /\ NoPortfolio
    /\ NoSessions
    /\ NoDbCalls

notRegister ==
    <<pipelineVars, taskVars, lstmVars, portVars, tradeVars, watchVars,
      active_sessions, now, logins, logouts, last_request>>

\* the request reaches register_user
RegisterArrive(i) ==
    /\ requests[i].pc = "idle"
    /\ \E user \in RegisterBodies :
          requests' = [requests EXCEPT ![i] = [pc |-> "arrived", user |-> user,
                                               status |-> 0, error |-> ""]]
    /\ UNCHANGED users
    /\ UNCHANGED notRegister

\* if check_user_exists(user.username): raise HTTPException(400)
RegisterCheck(i) ==
    /\ requests[i].pc = "arrived"
    /\ requests' =
          [requests EXCEPT ![i] =
              IF check_user_exists(users, requests[i].user.username)
              THEN [@ EXCEPT !.pc = "done", !.status = 400]
              ELSE [@ EXCEPT !.pc = "checked"]]
    /\ UNCHANGED users
    /\ UNCHANGED notRegister

\* hash_password, add_user and the answer
RegisterAdd(i) ==
    /\ requests[i].pc = "checked"
    /\ \E salt \in Salts, locked \in BOOLEAN :
          LET user == requests[i].user
              a == add_user(users, user.username, user.email,
                            hash_password(user.password, salt))
          IN IF locked
             \* except Exception: the database could not be written
             THEN /\ users' = users
                  /\ requests' = [requests EXCEPT ![i] =
                                     [@ EXCEPT !.pc = "done", !.status = 500,
                                               !.error = "OperationalError"]]
             ELSE /\ users' = a.table
                  /\ requests' =
                        [requests EXCEPT ![i] =
                            IF a.user_id.k = "None"
                            THEN [@ EXCEPT !.pc = "done", !.status = 500,
                                           !.error = "IntegrityError"]
                            ELSE [@ EXCEPT !.pc = "done", !.status = 200]]
    /\ UNCHANGED notRegister

RegisterNext ==
    \E i \in RequestIds :
       RegisterArrive(i) \/ RegisterCheck(i) \/ RegisterAdd(i)

SpecRegister == RegisterInit /\ [][RegisterNext]_vars

(***************************************************************************)
(* Properties of the register requests (SpecRegister)                      *)
(***************************************************************************)
\* C22: under any interleaving of register requests no two user rows share
\* a username or an email; a step of a request whose username is already
\* registered creates no row and reports no success; of the requests for
\* one username at most one reports success.
C22_UniqueUsers ==
    /\ [](/\ \A r1, r2 \in users :
                r1 # r2 => r1.username # r2.username /\ r1.email # r2.email
          /\ \A i, j \in RequestIds :
                (/\ i # j
                 /\ requests[i].status = 200
                 /\ requests[j].status = 200)
                   => requests[i].user.username # requests[j].user.username)
    /\ [][\A i \in RequestIds :
             (/\ requests'[i] # requests[i]
              /\ requests[i].pc # "idle"
              /\ check_user_exists(users, requests[i].user.username))
                => users' = users /\ requests'[i].status # 200]_vars

\* two requests with the same body both passed the check before either
\* inserted: one was answered 200, the other failed on the UNIQUE columns;
\* a third request for the same name came later and was answered 400
C22_Witness ==
    /\ Cardinality(users) = 1
    /\ \E i, j, l \in RequestIds :
          /\ requests[i].status = 200
          /\ requests[j].status = 500
          /\ requests[j].error = "IntegrityError"
          /\ requests[j].user = requests[i].user
          /\ requests[l].status = 400
          /\ requests[l].user.username = requests[i].user.username

(***************************************************************************)
(* Tax calculation and simulated trades (src/trading.py), as the trading   *)
(* page (src/pages/2_Trading.py) and the trading endpoints (src/api.py)    *)
(* call them: the tax of a transaction is calculated and shown, then the   *)
(* transaction is executed with the same type, price and quantity.  The    *)
(* INSERT of save_trading_transaction either succeeds or raises.           *)
(***************************************************************************)
\* the long-term gain that is free of tax
ltcg_exemption == 100000

\* the rows one run may add to trading_history
MaxTrades == 2

stt_rate == Rat(1, 1000)

transaction_charges_rate == Rat(1, 10000)

gst_rate == Rat(18, 100)

stamp_duty_rate == Rat(15, 100000)

short_term_rate == Rat(15, 100)

long_term_rate == Rat(10, 100)

\* the transaction types a client may send
TransactionTypes == {"Buy", "Sell", "HOLD"}

\* the options of the page's selectbox
PageTypes == {"Buy", "Sell"}

\* prices per share: with them the value of a sale lies below, at and
\* above the exemption
TradePrices ==
    {ltcg_exemption \div 2, ltcg_exemption \div 2 + ltcg_exemption \div 100}

\* st.session_state.user_id, current_user["user_id"]: one user is logged in
session_user_id == CHOOSE u \in PortUsers : TRUE

selected_stock == CHOOSE s \in Symbols : TRUE

\* str.lower() on the transaction types
keep_case(s) == s

lower(s) ==
    CASE s \in {"Buy", "BUY", "buy"} -> "buy"
      [] s \in {"Sell", "SELL", "sell"} -> "sell"
      [] s \in {"Hold", "HOLD", "hold"} -> "hold"
      [] OTHER -> s

\* a long-term tax of 10% of the whole value once it exceeds the exemption
income_tax_on_whole_value(total_value, short_term) ==
    IF short_term THEN RMul(total_value, short_term_rate)
    ELSE IF GT(total_value, ltcg_exemption)
         THEN RMul(total_value, long_term_rate)
         ELSE Num(0)

\* calculate_tax, the income tax of a sale
income_tax(total_value, short_term) ==
    IF short_term THEN RMul(total_value, short_term_rate)
    ELSE IF GT(total_value, ltcg_exemption)
         THEN RMul(RSub(total_value, Num(ltcg_exemption)), long_term_rate)
         ELSE Num(0)

\* calculate_tax: the dict of a buy or of a sale, None for any other type
calculate_tax(transaction_type, price, quantity, short_term) ==
    LET total_value == Num(price * quantity)
        stt == RMul(total_value, stt_rate)
        transaction_charges == RMul(total_value, transaction_charges_rate)
        gst == RMul(transaction_charges, gst_rate)
    IN IF lower(transaction_type) = "buy"
       THEN LET stamp_duty == RMul(total_value, stamp_duty_rate)
                total_tax == RAdd(RAdd(RAdd(stt, transaction_charges), gst),
                                  stamp_duty)
            IN [k |-> "dict",
                transaction_value |-> total_value,
                stt |-> stt,
                transaction_charges |-> transaction_charges,
                gst |-> gst,
                stamp_duty |-> stamp_duty,
                total_tax |-> total_tax,
                total_cost |-> RAdd(total_value, total_tax)]
       ELSE IF lower(transaction_type) = "sell"
       THEN LET tax == income_tax(total_value, short_term)
                total_tax == RAdd(RAdd(RAdd(stt, transaction_charges), gst),
                                  tax)
            IN [k |-> "dict",
                transaction_value |-> total_value,
                stt |-> stt,
                transaction_charges |-> transaction_charges,
                gst |-> gst,
                income_tax |-> tax,
                total_tax |-> total_tax,
                net_proceed |-> RSub(total_value, total_tax)]
       ELSE None

\* save_trading_transaction: True and the row appended, or False when the
\* INSERT raises
save_trading_transaction(table, user_id, stock_symbol, transaction_type, quantity, price, tax_amount, total_amount, raises) ==
    IF raises
    THEN [table |-> table, returned |-> FALSE]
    ELSE [table |-> Append(table, [id |-> Len(table) + 1,
                                   user_id |-> user_id,
                                   stock_symbol |-> stock_symbol,
                                   transaction_type |-> transaction_type,
                                   quantity |-> quantity,
                                   price |-> price,
                                   tax_amount |-> tax_amount,
                                   total_amount |-> total_amount]),
          returned |-> TRUE]

\* a trade that refuses to sell more than is held and moves the holding
execute_trade_with_holdings(db, user_id, stock_symbol, transaction_type, quantity, price, raises) ==
    LET tax_info == calculate_tax(transaction_type, price, quantity, TRUE)
        buy == lower(transaction_type) = "buy"
        held == {r \in db.portfolio : matches(r, user_id, stock_symbol)}
    IN IF tax_info.k = "None"
          \/ (~buy /\ \A r \in held : r.quantity < quantity)
       THEN [db |-> db, returned |-> FALSE]
       ELSE LET saved ==
                    save_trading_transaction(
                        db.trading_history, user_id, stock_symbol,
                        lower(transaction_type), quantity, price,
                        tax_info.total_tax,
                        IF buy THEN tax_info.total_cost
                        ELSE tax_info.net_proceed, raises)
                moved == add_to_portfolio(
                             db.portfolio, user_id, stock_symbol,
                             IF buy THEN quantity ELSE 0 - quantity, price)
            IN [db |-> [trading_history |-> saved.table,
                        portfolio |-> IF saved.returned THEN moved.table
                                      ELSE db.portfolio],
                returned |-> saved.returned]

\* execute_trade on the database db = [trading_history, portfolio]: the tax
\* is calculated without a holding period, so with short_term=True
execute_trade(db, user_id, stock_symbol, transaction_type, quantity, price, raises) ==
    LET tax_info == calculate_tax(transaction_type, price, quantity, TRUE)
    IN IF tax_info.k = "None"
       THEN [db |-> db, returned |-> FALSE]
       ELSE LET buy == lower(transaction_type) = "buy"
                total_amount == IF buy THEN tax_info.total_cost
                                ELSE tax_info.net_proceed
                tax_amount == tax_info.total_tax
                success ==
                    save_trading_transaction(
                        db.trading_history, user_id, stock_symbol,
                        lower(transaction_type), quantity, price,
                        tax_amount, total_amount, raises)
            IN [db |-> [db EXCEPT !.trading_history = success.table],
                returned |-> success.returned]

\* the portfolio tables a run starts from: nothing held, or one share held
PortfolioTables ==
    {{}, add_to_portfolio({}, session_user_id, selected_stock, 1,
                          BasePrice).table}

TradeInit ==
    /\ PipelineIdle
    /\ NoTasks
    /\ NoLstm
    /\ portfolio \in PortfolioTables
    /\ n_calls = 0
    /\ last_call = NoCall
    /\ NoSessions
    /\ NoRegistering
    /\ NoTrading
    /\ NoWatchlist

notTrading ==
    <<pipelineVars, taskVars, lstmVars, authVars, regVars, watchVars,
      n_calls, last_call>>

\* the tax calculation of the page and of POST /api/trading/calculate-tax;
\* the outcome of an earlier trade is no longer on display
CalculateTax ==
    /\ \E transaction_type \in TransactionTypes, price \in TradePrices,
          quantity \in 1..MaxQty, is_short_term \in BOOLEAN :
          quote' = [k |-> "quote",
                    transaction_type |-> transaction_type,
                    price |-> price,
                    quantity |-> quantity,
                    is_short_term |-> is_short_term,
                    tax_info |-> calculate_tax(transaction_type, price,
                                               quantity, is_short_term)]
    /\ last_trade' = NoCall
    /\ UNCHANGED <<trading_history, portfolio>>
    /\ UNCHANGED notTrading

\* execute_trade with the lowered type, as both callers call it
Execute(origin) ==
    /\ quote.k = "quote"
    /\ Len(trading_history) < MaxTrades
    /\ \E raises \in BOOLEAN :
          LET done == execute_trade(
                          [trading_history |-> trading_history,
                           portfolio |-> portfolio],
                          session_user_id, selected_stock,
                          lower(quote.transaction_type), quote.quantity,
                          quote.price, raises)
          IN /\ trading_history' = done.db.trading_history
             /\ portfolio' = done.db.portfolio
             /\ last_trade' = [k |-> "trade",
                               caller |-> origin,
                               transaction_type |-> quote.transaction_type,
                               quantity |-> quote.quantity,
                               price |-> quote.price,
                               is_short_term |-> quote.is_short_term,
                               quoted |-> quote.tax_info,
                               raises |-> raises,
                               returned |-> done.returned]
    /\ UNCHANGED quote
    /\ UNCHANGED notTrading

\* the form of the trading page, submitted and confirmed
ExecuteOnPage ==
    /\ quote.k = "quote"
    /\ quote.transaction_type \in PageTypes
    /\ Execute("page")

\* POST /api/trading/execute with the body sent to calculate-tax
ExecuteTransaction == Execute("api")

TradeNext == CalculateTax \/ ExecuteOnPage \/ ExecuteTransaction

SpecTrading == TradeInit /\ [][TradeNext]_vars

(***************************************************************************)
(* Properties of the trades (SpecTrading)                                  *)
(***************************************************************************)
IsBuy(transaction_type) == transaction_type \in {"buy", "Buy", "BUY"}

IsSell(transaction_type) == transaction_type \in {"sell", "Sell", "SELL"}

\* the step is a call of execute_trade
TradeStep ==
    /\ last_trade'.k = "trade"
    /\ last_trade' # last_trade \/ trading_history' # trading_history

\* the row a trade step appended
NewRow == trading_history'[Len(trading_history')]

\* C23: for a type other than buy and sell, in any case of letters,
\* calculate_tax returns None, execute_trade returns False and writes no
\* row; a successful execute_trade of a buy or a sale writes exactly one
\* row that carries total_tax as tax_amount and total_cost (buy) or
\* net_proceed (sale) as total_amount.
C23_RowPerTrade ==
    /\ [](quote.k = "quote" =>
             (quote.tax_info.k = "None"
                 <=> ~(IsBuy(quote.transaction_type)
                          \/ IsSell(quote.transaction_type))))
    /\ [][TradeStep =>
             LET t == last_trade'
                 tax_info == calculate_tax(
                                 IF IsBuy(t.transaction_type) THEN "buy"
                                 ELSE "sell", t.price, t.quantity, TRUE)
             IN IF ~(IsBuy(t.transaction_type) \/ IsSell(t.transaction_type))
                THEN ~t.returned /\ trading_history' = trading_history
                ELSE IF ~t.returned
                THEN trading_history' = trading_history
                ELSE /\ Len(trading_history') = Len(trading_history) + 1
                     /\ SubSeq(trading_history', 1, Len(trading_history))
                           = trading_history
                     /\ NewRow.transaction_type =
                           (IF IsBuy(t.transaction_type) THEN "buy" ELSE "sell")
                     /\ NewRow.quantity = t.quantity
                     /\ NewRow.price = t.price
                     /\ NewRow.tax_amount = tax_info.total_tax
                     /\ NewRow.total_amount =
                           (IF IsBuy(t.transaction_type)
                            THEN tax_info.total_cost
                            ELSE tax_info.net_proceed)]_vars

\* a buy from the page was recorded, then a HOLD sent to the API was
\* refused and left the one row alone
C23_Witness ==
    /\ Len(trading_history) = 1
    /\ trading_history[1].transaction_type = "buy"
    /\ last_trade.k = "trade"
    /\ last_trade.transaction_type = "HOLD"
    /\ ~last_trade.raises
    /\ ~last_trade.returned
    /\ quote.tax_info.k = "None"

\* the value of the quoted transaction, as an integer
QuoteValue == quote.price * quote.quantity

\* C24: the totals of calculate_tax are consistent.  Buy: total_tax = stt +
\* transaction_charges + gst + stamp_duty and total_cost = transaction_value
\* + total_tax.  Sale: total_tax = stt + transaction_charges + gst +
\* income_tax and net_proceed = transaction_value - total_tax, where
\* income_tax is 15% of the value when short-term and, when long-term, 10%
\* of the amount above 100000, so 0 for a value of at most 100000.
C24_TaxTotals ==
    (quote.k = "quote" /\ quote.tax_info.k = "dict") =>
       LET i == quote.tax_info
           charges == RAdd(RAdd(i.stt, i.transaction_charges), i.gst)
       IN /\ i.transaction_value = Num(QuoteValue)
          /\ IsBuy(quote.transaction_type) =>
                /\ i.total_tax = RAdd(charges, i.stamp_duty)
                /\ i.total_cost = RAdd(i.transaction_value, i.total_tax)
          /\ IsSell(quote.transaction_type) =>
                /\ i.total_tax = RAdd(charges, i.income_tax)
                /\ i.net_proceed = RSub(i.transaction_value, i.total_tax)
                /\ quote.is_short_term =>
                      i.income_tax = Rat(15 * QuoteValue, 100)
                /\ (~quote.is_short_term /\ QuoteValue > 100000) =>
                      i.income_tax = Rat(10 * (QuoteValue - 100000), 100)
                /\ (~quote.is_short_term /\ QuoteValue <= 100000) =>
                      i.income_tax = Num(0)

\* a long-term sale above the exemption was quoted, taxed on the excess
C24_Witness ==
    /\ quote.k = "quote"
    /\ quote.transaction_type = "Sell"
    /\ ~quote.is_short_term
    /\ QuoteValue > ltcg_exemption
    /\ quote.tax_info.income_tax = Rat(QuoteValue - ltcg_exemption, 10)
    /\ GT(quote.tax_info.net_proceed, 0)

\* C25: for a sale, the tax_amount and total_amount that execute_trade
\* records equal the total_tax and net_proceed that calculate_tax quoted
\* for the same price, quantity and holding period.
C25_RecordedAsQuoted ==
    [][(/\ TradeStep
        /\ IsSell(last_trade'.transaction_type)
        /\ last_trade'.returned) =>
          /\ NewRow.tax_amount = last_trade'.quoted.total_tax
          /\ NewRow.total_amount = last_trade'.quoted.net_proceed]_vars

\* the rows of the user and symbol of the trades
Holding == {r \in portfolio : matches(r, session_user_id, selected_stock)}

MaxWatchRows == 4

\* INSERT OR IGNORE into a table without UNIQUE(user_id, stock_symbol)
insert_without_unique(table, seq, user_id, stock_symbol) ==
    [table |-> table \cup {[id |-> seq + 1, user_id |-> user_id,
                            stock_symbol |-> stock_symbol]},
     seq |-> seq + 1]

\* INSERT OR IGNORE INTO watchlist: a row that would break
\* UNIQUE(user_id, stock_symbol) is skipped
insert_or_ignore(table, seq, user_id, stock_symbol) ==
    IF \E r \in table : matches(r, user_id, stock_symbol)
    THEN [table |-> table, seq |-> seq]
    ELSE [table |-> table \cup {[id |-> seq + 1, user_id |-> user_id,
                                 stock_symbol |-> stock_symbol]},
          seq |-> seq + 1]

\* DELETE FROM watchlist WHERE user_id = ? AND stock_symbol = ?
delete_from_watchlist(table, user_id, stock_symbol) ==
    {r \in table : ~matches(r, user_id, stock_symbol)}

add_to_watchlist(table, seq, user_id, stock_symbol) ==
    LET ins == insert_or_ignore(table, seq, user_id, stock_symbol)
    IN [table |-> ins.table, seq |-> ins.seq, returned |-> TRUE]

remove_from_watchlist(table, user_id, stock_symbol) ==
    [table |-> delete_from_watchlist(table, user_id, stock_symbol),
     returned |-> TRUE]

WatchInit ==
    /\ PipelineIdle
    /\ NoTasks
    /\ NoLstm
    /\ NoPortfolio
    /\ NoSessions
    /\ NoDbCalls

notWatch ==
    <<pipelineVars, taskVars, lstmVars, portVars, authVars, regVars,
      tradeVars>>

\* POST /api/watchlist/add
AddToWatchlist ==
    /\ watch_seq < MaxWatchRows
    /\ \E user_id \in PortUsers, stock_symbol \in Symbols :
          LET done == add_to_watchlist(watchlist, watch_seq, user_id,
                                       stock_symbol)
          IN /\ watchlist' = done.table
             /\ watch_seq' = done.seq
             /\ last_watch' = [k |-> "call", op |-> "add",
                               user_id |-> user_id,
                               stock_symbol |-> stock_symbol,
                               returned |-> done.returned]
    /\ UNCHANGED notWatch

\* POST /api/watchlist/remove
RemoveFromWatchlist ==
    /\ \E user_id \in PortUsers, stock_symbol \in Symbols :
          LET done == remove_from_watchlist(watchlist, user_id, stock_symbol)
          IN /\ watchlist' = done.table
             /\ last_watch' = [k |-> "call", op |-> "remove",
                               user_id |-> user_id,
                               stock_symbol |-> stock_symbol,
                               returned |-> done.returned]
    /\ UNCHANGED watch_seq
    /\ UNCHANGED notWatch

WatchNext == AddToWatchlist \/ RemoveFromWatchlist

SpecWatchlist == WatchInit /\ [][WatchNext]_vars

(***************************************************************************)
(* Properties of the watchlist (SpecWatchlist)                             *)
(***************************************************************************)
\* the rows of a user and symbol in a watchlist table
Watched(table, user_id, stock_symbol) ==
    {r \in table : matches(r, user_id, stock_symbol)}

====
